---- MODULE Spec2Model ----
(***************************************************************************)
(* Arrow / leader / text / boundary pipeline of chk_demension.py.          *)
(*                                                                         *)
(* Units.  Coordinates are integers on a grid of 1/20 mm (20 grid units    *)
(* per mm), so 0.1 mm = 2, 0.2 mm = 4, 5 mm = 100, 10 mm = 200.  Angles are    *)
(* given in tenths of a degree (75.0 deg = 750, 0.5 deg = 5).              *)
(*                                                                         *)
(* Arithmetic.  The program computes in floating point; the model computes *)
(* the same quantities exactly:                                            *)
(*   - a length or distance is kept as its square (sqrt is monotone, so    *)
(*     every comparison of two distances is a comparison of the squares);  *)
(*   - an angle in [0,180] is kept as the vector (c, s) = (dot, |cross|)   *)
(*     of the two direction vectors, i.e. the angle whose cosine is        *)
(*     dot / (mag1*mag2) -- the value the program passes to acos;          *)
(*   - an angle is compared with a threshold through the tangent of the    *)
(*     threshold; ratios are compared without products (FracCmp) so that   *)
(*     nothing leaves the 32-bit integers of the checker.                  *)
(* A segment is identified by its index in `lines` (the program           *)
(* identifies it by object identity / list index).                         *)
(***************************************************************************)
EXTENDS Integers, Sequences, FiniteSets, TLC

VARIABLES
    lines,          \* input: the list of Line objects
    texts,          \* input: the list of TextEntity objects (position, matched_arrows)
    config,         \* input: the configuration dictionary
    line_lengths,   \* detect_arrows_in_drawing: cached lengths (pass 1)
    meeting_lines,  \* detect_arrows_in_drawing: per line, per endpoint, shorter lines meeting there (pass 2)
    used_barbs,     \* detect_arrows_in_drawing: indices already consumed as barbs
    arrows,         \* detect_arrows_in_drawing: the Arrow list being built / returned
    i,              \* detect_arrows_in_drawing: outer loop index of pass 3
    arrow_leaders,  \* the ArrowLeader list
    boundary_lines, \* list returned by detect_boundary_lines
    passes,         \* the passes that have run on the current leaders, in order
    run,            \* number of the current detection run over `lines`
    prev_arrows,    \* the Arrow list returned by the previous detection run
    pc,             \* position of the caller
    entry,          \* what is running: the functions called directly, or a main
    calls,          \* the functions called so far, in order
    drawing,        \* main: the input file
    detect_ex_leaders, \* main: the setting ON_DETECT_EX_LEADERS of the run
    doc,            \* main: the loaded document, or None
    reports,        \* main: the arguments of each generate_report call
    rounding,       \* angle_between: rounding error of the computed cosine, in ulps
    outcome,        \* angle_between: the outcome of the call
    argv,           \* del_demension: the command line options given
    options,        \* del_demension: the options main hands to process_file
    removals,       \* del_demension: the removal steps run by clean, in order
    cleaner         \* del_demension: the DXFCleaner after clean

vars == <<lines, texts, config, line_lengths, meeting_lines, used_barbs, arrows,
          i, arrow_leaders, boundary_lines, passes, run, prev_arrows, pc,
          entry, calls, drawing, detect_ex_leaders, doc, reports, rounding, outcome,
          argv, options, removals, cleaner>>

mainVars == <<entry, drawing, detect_ex_leaders, doc, reports>>
angleVars == <<rounding, outcome>>
delVars == <<argv, options, removals, cleaner>>

(***************************************************************************)
(* Bounds                                                                  *)
(***************************************************************************)
MaxLines == 5
MaxTexts == 3
MaxRuns == 2
MaxOthers == 2

(***************************************************************************)
(* Configuration (CONFIG, chk_demension.py 28-47), in grid units and       *)
(* tenths of a degree.                                                     *)
(***************************************************************************)
CONFIG ==
    [ARROW_DETECTION |->
        [tip_point_tolerance |-> 2,
         barb_length_diff_max |-> 4,
         arrow_angle_max |-> 750,
         barb_angle_diff_max |-> 5],
     LEADER_ARROW_MATCHING |->
        [max_distance |-> 200],
     LEADER_BOUNDARY_MATCHING |->
        [max_distance_to_arrow |-> 100,
         perpendicular_angle_min |-> 895,
         perpendicular_angle_max |-> 905]]

\* default of the angle_threshold parameter of are_lines_parallel (5.0 deg)
angle_threshold == 50

None == <<>>

\* None where the program holds a reference to a TextEntity (texts are
\* referred to by their index in `texts`, which starts at 1)
NoText == 0

(***************************************************************************)
(* Data classes                                                            *)
(***************************************************************************)
Point(x, y) == [x |-> x, y |-> y]

Line(start, end) == [start_point |-> start, end_point |-> end]

Arrow(shaft, left_barb, right_barb, tip_point, direction) ==
    [shaft |-> shaft, left_barb |-> left_barb, right_barb |-> right_barb,
     tip_point |-> tip_point, direction |-> direction, id |-> None]

TextEntity(position) == [position |-> position, matched_arrows |-> <<>>]

ArrowLeader(arrow, leader_position, line_chain) ==
    [arrow |-> arrow, leader_position |-> leader_position,
     line_chain |-> IF line_chain = <<>> THEN <<arrow.shaft>> ELSE line_chain,
     matched_text |-> NoText,
     matched_boundaries |-> <<>>,
     id |-> None]

(***************************************************************************)
(* Exact arithmetic helpers                                                *)
(***************************************************************************)
Abs(a) == IF a < 0 THEN -a ELSE a

\* the elements of a list
Elements(list) == {list[k] : k \in 1..Len(list)}

\* sign of a/b - c/d for a, c >= 0 and b, d > 0, by comparing the
\* continued-fraction expansions (no product is formed)
RECURSIVE FracCmp(_, _, _, _)
FracCmp(a, b, c, d) ==
    LET qa == a \div b
        qc == c \div d
        ra == a % b
        rc == c % d
    IN  IF qa # qc THEN (IF qa > qc THEN 1 ELSE -1)
        ELSE IF ra = 0 /\ rc = 0 THEN 0
        ELSE IF ra = 0 THEN -1
        ELSE IF rc = 0 THEN 1
        ELSE FracCmp(d, rc, b, ra)

\* tan of t tenths of a degree, 0 < t < 900, as <<numerator, denominator>>,
\* to 9 significant digits (only the thresholds the program uses are
\* tabulated; no angle formed by the inputs below comes that close to one)
Tan(t) ==
    CASE t = 5   -> <<8726868, 1000000000>>
      [] t = 50  -> <<87488664, 1000000000>>
      [] t = 100 -> <<176326981, 1000000000>>
      [] t = 750 -> <<373205081, 100000000>>
      [] t = 895 -> <<1145886501, 10000000>>

(***************************************************************************)
(* Utility functions                                                       *)
(***************************************************************************)
\* length(line), squared
length(line) ==
    LET dx == line.end_point.x - line.start_point.x
        dy == line.end_point.y - line.start_point.y
    IN  dx * dx + dy * dy

\* distance(point1, point2), squared
distance(point1, point2) ==
    LET dx == point2.x - point1.x
        dy == point2.y - point1.y
    IN  dx * dx + dy * dy

direction_vector(line) ==
    <<line.end_point.x - line.start_point.x,
      line.end_point.y - line.start_point.y>>

dot_product(v1, v2) == v1[1] * v2[1] + v1[2] * v2[2]

\* angle_between(line1, line2): the angle in [0,180] with cosine
\* dot / (mag1*mag2), kept as (c, s) = (dot, |cross|) since
\* dot^2 + cross^2 = (mag1*mag2)^2; a zero-length vector yields angle 0.
angle_between(line1, line2) ==
    LET v1 == direction_vector(line1)
        v2 == direction_vector(line2)
        dot == dot_product(v1, v2)
        mag1 == v1[1] * v1[1] + v1[2] * v1[2]
        mag2 == v2[1] * v2[1] + v2[2] * v2[2]
    IN  IF mag1 = 0 \/ mag2 = 0
        THEN [c |-> 1, s |-> 0]
        ELSE [c |-> dot, s |-> Abs(v1[1] * v2[2] - v1[2] * v2[1])]

\* sign of (angle - t), t in tenths of a degree, 0 <= t <= 1800
AngleCmp(angle, t) ==
    IF t = 0 THEN (IF angle.s = 0 /\ angle.c > 0 THEN 0 ELSE 1)
    ELSE IF t = 1800 THEN (IF angle.s = 0 /\ angle.c < 0 THEN 0 ELSE -1)
    ELSE IF t = 900 THEN (IF angle.c > 0 THEN -1 ELSE IF angle.c = 0 THEN 0 ELSE 1)
    ELSE IF t < 900
         THEN IF angle.c <= 0 THEN 1
              ELSE FracCmp(angle.s, angle.c, Tan(t)[1], Tan(t)[2])
         ELSE IF angle.c >= 0 THEN -1
              ELSE 0 - FracCmp(angle.s, 0 - angle.c, Tan(1800 - t)[1], Tan(1800 - t)[2])

\* abs(angle_j - angle_k) as an angle in [0,180]
AngleAbsDiff(angle_j, angle_k) ==
    [c |-> angle_j.c * angle_k.c + angle_j.s * angle_k.s,
     s |-> Abs(angle_j.s * angle_k.c - angle_j.c * angle_k.s)]

\* abs(sqrt(a) - sqrt(b)) > t  for squared lengths a, b
LengthDiffExceeds(a, b, t) ==
    LET d == a + b - t * t
    IN  d > 0 /\ (a = 0 \/ b = 0 \/ FracCmp(d, 2 * a, 2 * b, d) = 1)

are_lines_parallel_never(line1, line2) == FALSE
are_lines_parallel(line1, line2) ==
    LET angle == angle_between(line1, line2)
    IN  AngleCmp(angle, angle_threshold) = -1
        \/ AngleCmp(angle, 1800 - angle_threshold) = 1

get_leader_position_swapped(arrow_line, arrow_location) ==
    IF arrow_location = "end" THEN arrow_line.end_point
    ELSE arrow_line.start_point

\* (the midpoint of mode "both" is rounded down to the grid)
get_leader_position(arrow_line, arrow_location) ==
    IF arrow_location = "end" THEN arrow_line.start_point
    ELSE IF arrow_location = "start" THEN arrow_line.end_point
    ELSE IF arrow_location = "both"
         THEN Point((arrow_line.start_point.x + arrow_line.end_point.x) \div 2,
                    (arrow_line.start_point.y + arrow_line.end_point.y) \div 2)
    ELSE None

(***************************************************************************)
(* Arrow detection (detect_arrows_in_drawing, check_symmetrical_lines)     *)
(***************************************************************************)
\* the four endpoint pairings, in the order the program lists them
FourDistances(line_i, line_j) ==
    << [d |-> distance(line_i.start_point, line_j.start_point), i_point |-> "start", j_point |-> "start"],
       [d |-> distance(line_i.start_point, line_j.end_point),   i_point |-> "start", j_point |-> "end"],
       [d |-> distance(line_i.end_point,   line_j.start_point), i_point |-> "end",   j_point |-> "start"],
       [d |-> distance(line_i.end_point,   line_j.end_point),   i_point |-> "end",   j_point |-> "end"] >>

\* the last entry of least distance
MinByDistance_last(distances) ==
    distances[CHOOSE k \in 1..Len(distances) :
                \A m \in 1..Len(distances) :
                    /\ distances[k].d <= distances[m].d
                    /\ (m > k => distances[m].d > distances[k].d)]

\* min(distances, key=lambda x: x[0]): the first entry of least distance
MinByDistance(distances) ==
    distances[CHOOSE k \in 1..Len(distances) :
                \A m \in 1..Len(distances) :
                    /\ distances[k].d <= distances[m].d
                    /\ (m < k => distances[m].d > distances[k].d)]

IsShorter_reversed(length_j, length_i) == length_j > length_i

\* the negation of the skip test `line_j_length >= line_i_length`
IsShorter(length_j, length_i) == ~(length_j >= length_i)

WithinTolerance(min_dist, tip_tolerance) == min_dist <= tip_tolerance * tip_tolerance

\* the list of meeting_lines[i] a pairing is appended to
MeetingSide(i_point) == IF i_point = "start" THEN "start" ELSE "end"

\* body of the inner loop of pass 2 for the ordered pair (i, j):
\* None when nothing is recorded, else the endpoint of i and the entry
MeetingEntry(lns, lengths, tip_tolerance, a, j) ==
    IF a = j THEN None
    ELSE IF ~IsShorter(lengths[j], lengths[a]) THEN None
    ELSE IF are_lines_parallel(lns[a], lns[j]) THEN None
    ELSE LET m == MinByDistance(FourDistances(lns[a], lns[j]))
         IN  IF WithinTolerance(m.d, tip_tolerance)
             THEN [side |-> MeetingSide(m.i_point), entry |-> <<j, m.j_point>>]
             ELSE None

RECURSIVE MeetingList(_, _, _, _, _, _)
\* the entries appended to meeting_lines[a][side] by j = from .. len(lines)
MeetingList(lns, lengths, tip_tolerance, a, side, from) ==
    IF from > Len(lns) THEN <<>>
    ELSE LET e == MeetingEntry(lns, lengths, tip_tolerance, a, from)
             rest == MeetingList(lns, lengths, tip_tolerance, a, side, from + 1)
         IN  IF e # None /\ e.side = side THEN <<e.entry>> \o rest ELSE rest

BarbUsed_ignored(line_j_idx, line_k_idx, used) == FALSE

\* `line_j_idx in used_barbs or line_k_idx in used_barbs`
BarbUsed(line_j_idx, line_k_idx, used) ==
    line_j_idx \in used \/ line_k_idx \in used

SymmetryConditions_noAngleDiff(shaft_line, line_j, line_k, barb_j_length, barb_k_length, arrow_config) ==
    /\ ~LengthDiffExceeds(barb_j_length, barb_k_length, arrow_config.barb_length_diff_max)
    /\ AngleCmp(angle_between(shaft_line, line_j), arrow_config.arrow_angle_max) # 1
    /\ AngleCmp(angle_between(shaft_line, line_k), arrow_config.arrow_angle_max) # 1

\* conditions 1-3 of check_symmetrical_lines for one pair
SymmetryConditions(shaft_line, line_j, line_k, barb_j_length, barb_k_length, arrow_config) ==
    LET angle_j == angle_between(shaft_line, line_j)
        angle_k == angle_between(shaft_line, line_k)
    IN  /\ ~LengthDiffExceeds(barb_j_length, barb_k_length, arrow_config.barb_length_diff_max)
        /\ ~(AngleCmp(angle_j, arrow_config.arrow_angle_max) = 1
             \/ AngleCmp(angle_k, arrow_config.arrow_angle_max) = 1)
        /\ ~(AngleCmp(AngleAbsDiff(angle_j, angle_k), arrow_config.barb_angle_diff_max) = 1)

\* the last acceptable pair instead of the first
check_symmetrical_lines_last(shaft_line, meeting_line_indices, lns, lengths, used, arrow_config) ==
    LET n == Len(meeting_line_indices)
        Accepts(idx1, idx2) ==
            LET line_j_idx == meeting_line_indices[idx1][1]
                line_k_idx == meeting_line_indices[idx2][1]
            IN  /\ ~BarbUsed(line_j_idx, line_k_idx, used)
                /\ SymmetryConditions(shaft_line, lns[line_j_idx], lns[line_k_idx],
                                      lengths[line_j_idx], lengths[line_k_idx], arrow_config)
        Pairs == {p \in (1..n) \X (1..n) : p[1] < p[2] /\ Accepts(p[1], p[2])}
    IN  IF n < 2 \/ Pairs = {} THEN None
        ELSE LET last == CHOOSE p \in Pairs :
                            \A q \in Pairs : p[1] > q[1] \/ (p[1] = q[1] /\ p[2] >= q[2])
             IN  <<meeting_line_indices[last[1]][1], meeting_line_indices[last[2]][1]>>

\* check_symmetrical_lines: the first pair (idx1 < idx2, in ascending
\* (idx1, idx2) order) that is unused and satisfies the conditions, or None
check_symmetrical_lines(shaft_line, meeting_line_indices, lns, lengths, used, arrow_config) ==
    LET n == Len(meeting_line_indices)
        Accepts(idx1, idx2) ==
            LET line_j_idx == meeting_line_indices[idx1][1]
                line_k_idx == meeting_line_indices[idx2][1]
            IN  /\ ~BarbUsed(line_j_idx, line_k_idx, used)
                /\ SymmetryConditions(shaft_line, lns[line_j_idx], lns[line_k_idx],
                                      lengths[line_j_idx], lengths[line_k_idx], arrow_config)
        Pairs == {p \in (1..n) \X (1..n) : p[1] < p[2] /\ Accepts(p[1], p[2])}
    IN  IF n < 2 \/ Pairs = {} THEN None
        ELSE LET first == CHOOSE p \in Pairs :
                            \A q \in Pairs : p[1] < q[1] \/ (p[1] = q[1] /\ p[2] <= q[2])
             IN  <<meeting_line_indices[first[1]][1], meeting_line_indices[first[2]][1]>>

TipPoint_start(line, side) == line.start_point

\* the tip_point argument of the Arrow built at an endpoint
TipPoint(line, side) == IF side = "start" THEN line.start_point ELSE line.end_point

ArrowDirection_end(side) == "end"
ArrowDirection_start(side) == "start"

\* the direction argument of the Arrow built at an endpoint
ArrowDirection(side) == IF side = "start" THEN "start" ELSE "end"

\* the accepted barbs are not marked as used
CheckEndpoint_unmarked(a, side) ==
    IF Len(meeting_lines[a][side]) >= 2
    THEN LET result == check_symmetrical_lines(lines[a], meeting_lines[a][side], lines,
                                               line_lengths, used_barbs,
                                               config.ARROW_DETECTION)
         IN  IF result # None
             THEN [arrows |-> Append(arrows, Arrow(a, result[1], result[2],
                                                   TipPoint(lines[a], side),
                                                   ArrowDirection(side))),
                   used_barbs |-> used_barbs]
             ELSE [arrows |-> arrows, used_barbs |-> used_barbs]
    ELSE [arrows |-> arrows, used_barbs |-> used_barbs]

\* one endpoint check of pass 3: the new (arrows, used_barbs)
CheckEndpoint(a, side) ==
    IF Len(meeting_lines[a][side]) >= 2
    THEN LET result == check_symmetrical_lines(lines[a], meeting_lines[a][side], lines,
                                               line_lengths, used_barbs,
                                               config.ARROW_DETECTION)
         IN  IF result # None
             THEN [arrows |-> Append(arrows, Arrow(a, result[1], result[2],
                                                   TipPoint(lines[a], side),
                                                   ArrowDirection(side))),
                   used_barbs |-> used_barbs \cup {result[1], result[2]}]
             ELSE [arrows |-> arrows, used_barbs |-> used_barbs]
    ELSE [arrows |-> arrows, used_barbs |-> used_barbs]

ArrowId_zeroBased(k) == <<"ARW", k - 1>>

\* f"ARW{i:03d}"
ArrowId(k) == <<"ARW", k>>

InitialUsedBarbs_kept == used_barbs

\* `used_barbs = set()` at the start of every call
InitialUsedBarbs == {}

\* pass 1 (with the initialisation of the call)
LengthPass ==
    /\ pc = "detect"
    /\ arrows' = <<>>
    /\ used_barbs' = InitialUsedBarbs
    /\ line_lengths' = [k \in 1..Len(lines) |-> length(lines[k])]
    /\ pc' = "meeting"
    /\ calls' = Append(calls, "detect_arrows_in_drawing")
    /\ UNCHANGED <<mainVars, angleVars, delVars>>
    /\ UNCHANGED <<lines, texts, config, meeting_lines, i, arrow_leaders,
                   boundary_lines, passes, run, prev_arrows>>

\* pass 2
MeetingPass ==
    /\ pc = "meeting"
    /\ meeting_lines' =
         [a \in 1..Len(lines) |->
            [start |-> MeetingList(lines, line_lengths,
                                   config.ARROW_DETECTION.tip_point_tolerance, a, "start", 1),
             end   |-> MeetingList(lines, line_lengths,
                                   config.ARROW_DETECTION.tip_point_tolerance, a, "end", 1)]]
    /\ i' = 1
    /\ pc' = "check_start"
    /\ UNCHANGED calls
    /\ UNCHANGED <<mainVars, angleVars, delVars>>
    /\ UNCHANGED <<lines, texts, config, line_lengths, used_barbs, arrows,
                   arrow_leaders, boundary_lines, passes, run, prev_arrows>>

\* pass 3, start-point check of line i
CheckStart ==
    /\ pc = "check_start"
    /\ i <= Len(lines)
    /\ LET r == CheckEndpoint(i, "start")
       IN  /\ arrows' = r.arrows
           /\ used_barbs' = r.used_barbs
    /\ pc' = "check_end"
    /\ UNCHANGED calls
    /\ UNCHANGED <<mainVars, angleVars, delVars>>
    /\ UNCHANGED <<lines, texts, config, line_lengths, meeting_lines, i,
                   arrow_leaders, boundary_lines, passes, run, prev_arrows>>

\* pass 3, end-point check of line i
CheckEnd ==
    /\ pc = "check_end"
    /\ LET r == CheckEndpoint(i, "end")
       IN  /\ arrows' = r.arrows
           /\ used_barbs' = r.used_barbs
    /\ i' = i + 1
    /\ pc' = "check_start"
    /\ UNCHANGED calls
    /\ UNCHANGED <<mainVars, angleVars, delVars>>
    /\ UNCHANGED <<lines, texts, config, line_lengths, meeting_lines,
                   arrow_leaders, boundary_lines, passes, run, prev_arrows>>

\* identifier assignment and return
AssignIds ==
    /\ pc = "check_start"
    /\ i > Len(lines)
    /\ arrows' = [k \in 1..Len(arrows) |-> [arrows[k] EXCEPT !.id = ArrowId(k)]]
    /\ pc' = "detected"
    /\ UNCHANGED calls
    /\ UNCHANGED <<mainVars, angleVars, delVars>>
    /\ UNCHANGED <<lines, texts, config, line_lengths, meeting_lines, used_barbs, i,
                   arrow_leaders, boundary_lines, passes, run, prev_arrows>>

\* the caller runs detection again on the same, unmodified list
Redetect ==
    /\ entry = "functions"
    /\ pc = "detected"
    /\ run < MaxRuns
    /\ prev_arrows' = arrows
    /\ run' = run + 1
    /\ pc' = "detect"
    /\ UNCHANGED calls
    /\ UNCHANGED <<mainVars, angleVars, delVars>>
    /\ UNCHANGED <<lines, texts, config, line_lengths, meeting_lines, used_barbs, arrows,
                   i, arrow_leaders, boundary_lines, passes>>

(***************************************************************************)
(* Leader assembly (create_arrow_leaders)                                  *)
(***************************************************************************)
\* f"A{i:03d}"
LeaderId_zeroBased(k) == <<"A", k - 1>>

LeaderId(k) == <<"A", k>>

create_arrow_leaders(arrs) ==
    [k \in 1..Len(arrs) |->
        [ArrowLeader(arrs[k],
                     get_leader_position(lines[arrs[k].shaft], arrs[k].direction),
                     <<arrs[k].shaft>>)
         EXCEPT !.id = LeaderId(k)]]

CreateLeaders ==
    /\ pc = "detected"
    /\ arrow_leaders' = create_arrow_leaders(arrows)
    /\ passes' = <<>>
    /\ pc' = "assembled"
    /\ calls' = Append(calls, "create_arrow_leaders")
    /\ UNCHANGED <<mainVars, angleVars, delVars>>
    /\ UNCHANGED <<lines, texts, config, line_lengths, meeting_lines, used_barbs, arrows,
                   i, boundary_lines, run, prev_arrows>>

(***************************************************************************)
(* Text matching (match_texts_to_arrows)                                   *)
(***************************************************************************)
\* float('inf') as a squared distance
Inf == -1

IsCloser_anyWithinCutoff(dist, max_distance, min_dist) ==
    dist < max_distance * max_distance

IsCloser_orEqual(dist, max_distance, min_dist) ==
    /\ dist < max_distance * max_distance
    /\ (min_dist = Inf \/ dist <= min_dist)

IsCloser_inclusive(dist, max_distance, min_dist) ==
    /\ dist <= max_distance * max_distance
    /\ (min_dist = Inf \/ dist < min_dist)

\* `dist < max_distance and dist < min_dist`
IsCloser(dist, max_distance, min_dist) ==
    /\ dist < max_distance * max_distance
    /\ (min_dist = Inf \/ dist < min_dist)

RECURSIVE ClosestText(_, _, _, _, _, _)
\* the inner loop over texts from index k on: the final closest_text
ClosestText(leader_position, txts, max_distance, k, min_dist, closest_text) ==
    IF k > Len(txts) THEN closest_text
    ELSE LET dist == distance(leader_position, txts[k].position)
         IN  IF IsCloser(dist, max_distance, min_dist)
             THEN ClosestText(leader_position, txts, max_distance, k + 1, dist, k)
             ELSE ClosestText(leader_position, txts, max_distance, k + 1, min_dist, closest_text)

AddMatchedArrow_forgotten(matched_arrows, leader) == matched_arrows

\* closest_text.matched_arrows.append(leader)
AddMatchedArrow(matched_arrows, leader) == Append(matched_arrows, leader)

RECURSIVE MatchLoop(_, _, _, _)
\* the outer loop over leaders from index k on: the final (leaders, texts)
MatchLoop(leaders, txts, max_distance, k) ==
    IF k > Len(leaders) THEN [arrow_leaders |-> leaders, texts |-> txts]
    ELSE LET closest_text == ClosestText(leaders[k].leader_position, txts, max_distance,
                                         1, Inf, NoText)
         IN  IF closest_text # NoText
             THEN MatchLoop([leaders EXCEPT ![k].matched_text = closest_text],
                            [txts EXCEPT ![closest_text].matched_arrows =
                                             AddMatchedArrow(@, k)],
                            max_distance, k + 1)
             ELSE MatchLoop(leaders, txts, max_distance, k + 1)

\* text matching that also empties the boundary lists
match_texts_to_arrows_resetting(leaders, txts, cfg) ==
    LET r == MatchLoop(leaders, txts, cfg.LEADER_ARROW_MATCHING.max_distance, 1)
    IN  [r EXCEPT !.arrow_leaders =
            [k \in 1..Len(leaders) |->
                [r.arrow_leaders[k] EXCEPT !.matched_boundaries = <<>>]]]

match_texts_to_arrows(leaders, txts, cfg) ==
    MatchLoop(leaders, txts, cfg.LEADER_ARROW_MATCHING.max_distance, 1)

\* the order in which main runs the two passes over the leaders
MainPassOrder_textFirst == <<"text", "boundary">>
MainPassOrder == <<"boundary", "text">>

\* pass p has not run on the leaders yet and, in main, the passes that main
\* runs before p have
MayRun(p) ==
    /\ \A k \in 1..Len(passes) : passes[k] # p
    /\ entry = "main" =>
          \A n \in 1..Len(MainPassOrder) :
              MainPassOrder[n] = p => passes = SubSeq(MainPassOrder, 1, n - 1)

MatchTexts ==
    /\ pc = "assembled"
    /\ MayRun("text")
    /\ LET r == match_texts_to_arrows(arrow_leaders, texts, config)
       IN  /\ arrow_leaders' = r.arrow_leaders
           /\ texts' = r.texts
    /\ passes' = Append(passes, "text")
    /\ calls' = Append(calls, "match_texts_to_arrows")
    /\ UNCHANGED <<mainVars, angleVars, delVars>>
    /\ UNCHANGED <<lines, config, line_lengths, meeting_lines, used_barbs, arrows,
                   i, boundary_lines, run, prev_arrows, pc>>

(***************************************************************************)
(* Boundary detection (detect_boundary_lines)                              *)
(***************************************************************************)
ArrowLines_none(leaders) == {}
\* the set of Line objects used by some arrow
ArrowLines(leaders) ==
    UNION {{leaders[k].arrow.shaft, leaders[k].arrow.left_barb, leaders[k].arrow.right_barb} :
            k \in 1..Len(leaders)}

Min_first(a, b) == a
Min(a, b) == IF a <= b THEN a ELSE b

\* the two conditions of the inner loop for (leader, line)
IsBoundary(leader, line, boundary_config) ==
    LET dist_to_start == distance(leader.arrow.tip_point, line.start_point)
        dist_to_end == distance(leader.arrow.tip_point, line.end_point)
        min_dist_to_line == Min(dist_to_start, dist_to_end)
        angle == angle_between(lines[leader.arrow.shaft], line)
    IN  /\ ~(min_dist_to_line > boundary_config.max_distance_to_arrow
                                * boundary_config.max_distance_to_arrow)
        /\ AngleCmp(angle, boundary_config.perpendicular_angle_min) # -1
        /\ AngleCmp(angle, boundary_config.perpendicular_angle_max) # 1

RECURSIVE BoundariesOf(_, _, _, _, _)
\* the lines appended for one leader, scanning lines from index k on
BoundariesOf(leader, lns, arrow_lines, boundary_config, k) ==
    IF k > Len(lns) THEN <<>>
    ELSE LET rest == BoundariesOf(leader, lns, arrow_lines, boundary_config, k + 1)
         IN  IF k \notin arrow_lines /\ IsBoundary(leader, lns[k], boundary_config)
             THEN <<k>> \o rest
             ELSE rest

RECURSIVE Concat(_, _)
Concat(f, k) == IF k > Len(f) THEN <<>> ELSE f[k] \o Concat(f, k + 1)

\* a line goes to the first leader that matches it only
detect_boundary_lines_firstLeaderOnly(leaders, lns, cfg) ==
    LET all == [k \in 1..Len(leaders) |->
                    BoundariesOf(leaders[k], lns, ArrowLines(leaders),
                                 cfg.LEADER_BOUNDARY_MATCHING, 1)]
        taken(k) == UNION {{all[j][n] : n \in 1..Len(all[j])} : j \in 1..(k - 1)}
        found == [k \in 1..Len(leaders) |-> SelectSeq(all[k], LAMBDA x : x \notin taken(k))]
    IN  [arrow_leaders |->
            [k \in 1..Len(leaders) |->
                [leaders[k] EXCEPT !.matched_boundaries = @ \o found[k]]],
         boundary_lines |-> Concat(found, 1)]

\* boundary detection that skips the leaders without a matched text
detect_boundary_lines_matchedOnly(leaders, lns, cfg) ==
    LET found == [k \in 1..Len(leaders) |->
                    IF leaders[k].matched_text = NoText THEN <<>>
                    ELSE BoundariesOf(leaders[k], lns, ArrowLines(leaders),
                                      cfg.LEADER_BOUNDARY_MATCHING, 1)]
    IN  [arrow_leaders |->
            [k \in 1..Len(leaders) |->
                [leaders[k] EXCEPT !.matched_boundaries = @ \o found[k]]],
         boundary_lines |-> Concat(found, 1)]

detect_boundary_lines(leaders, lns, cfg) ==
    LET found == [k \in 1..Len(leaders) |->
                    BoundariesOf(leaders[k], lns, ArrowLines(leaders),
                                 cfg.LEADER_BOUNDARY_MATCHING, 1)]
    IN  [arrow_leaders |->
            [k \in 1..Len(leaders) |->
                [leaders[k] EXCEPT !.matched_boundaries = @ \o found[k]]],
         boundary_lines |-> Concat(found, 1)]

DetectBoundary ==
    /\ pc = "assembled"
    /\ MayRun("boundary")
    /\ LET r == detect_boundary_lines(arrow_leaders, lines, config)
       IN  /\ arrow_leaders' = r.arrow_leaders
           /\ boundary_lines' = r.boundary_lines
    /\ passes' = Append(passes, "boundary")
    /\ calls' = Append(calls, "detect_boundary_lines")
    /\ UNCHANGED <<mainVars, angleVars, delVars>>
    /\ UNCHANGED <<lines, texts, config, line_lengths, meeting_lines, used_barbs, arrows,
                   i, run, prev_arrows, pc>>

(***************************************************************************)
(* The pipeline (main)                                                     *)
(***************************************************************************)
\* the shipped setting
ON_DETECT_EX_LEADERS == FALSE

\* the document read from a file: its segments and its label positions
Document(file) == <<file.lines, file.texts>>

\* ezdxf.readfile raises IOError for a missing file and DXFStructureError
\* for an invalid one; both are caught
load_dxf_file(file) == IF file.status = "ok" THEN Document(file) ELSE None

MainStops_never(d) == FALSE
\* main returns when there is no document
MainStops(d) == d = None

extract_lines(d) == d[1]

\* extract_texts: fresh TextEntity objects with empty matched_arrows
extract_texts(positions) == [k \in 1..Len(positions) |-> TextEntity(positions[k])]

\* step 1
MainLoad ==
    /\ entry = "main"
    /\ pc = "main"
    /\ doc' = load_dxf_file(drawing)
    /\ pc' = IF MainStops(doc') THEN "returned" ELSE "extract"
    /\ calls' = Append(calls, "load_dxf_file")
    /\ UNCHANGED <<lines, texts, config, line_lengths, meeting_lines, used_barbs, arrows,
                   i, arrow_leaders, boundary_lines, passes, run, prev_arrows>>
    /\ UNCHANGED <<entry, drawing, detect_ex_leaders, reports, angleVars, delVars>>

\* steps 2 to 4, and the test of the setting
MainExtract ==
    /\ entry = "main"
    /\ pc = "extract"
    /\ lines' = extract_lines(doc)
    /\ texts' = extract_texts(doc[2])
    /\ pc' = IF detect_ex_leaders THEN "detect" ELSE "report"
    /\ calls' = Append(calls, "extract_lines")
    /\ UNCHANGED <<config, line_lengths, meeting_lines, used_barbs, arrows,
                   i, arrow_leaders, boundary_lines, passes, run, prev_arrows>>
    /\ UNCHANGED <<mainVars, angleVars, delVars>>

ReportInput_empty == [arrows |-> <<>>, arrow_leaders |-> <<>>, boundary_lines |-> <<>>]
\* the arrows, leaders and boundary lines handed to generate_report
ReportInput ==
    [arrows |-> arrows, arrow_leaders |-> arrow_leaders, boundary_lines |-> boundary_lines]

\* step 9
MainReport ==
    /\ entry = "main"
    /\ \/ pc = "report"
       \/ pc = "assembled" /\ Len(passes) = Len(MainPassOrder)
    /\ reports' = Append(reports, ReportInput)
    /\ pc' = "done"
    /\ calls' = Append(calls, "generate_report")
    /\ UNCHANGED <<lines, texts, config, line_lengths, meeting_lines, used_barbs, arrows,
                   i, arrow_leaders, boundary_lines, passes, run, prev_arrows>>
    /\ UNCHANGED <<entry, drawing, detect_ex_leaders, doc, angleVars, delVars>>

(***************************************************************************)
(* angle_between as evaluated in floating point                            *)
(***************************************************************************)
\* the quotient dot / (mag1 * mag2) as computed: the exact cosine of the
\* angle (c, s) with a rounding error of err ulps
cos_angle(line1, line2, err) ==
    [c |-> angle_between(line1, line2).c, s |-> angle_between(line1, line2).s, err |-> err]

\* the computed value lies outside [-1, 1]: the exact cosine is 1 or -1 and
\* the error points away from 0
OutOfDomain(cos) == cos.s = 0 /\ cos.err # 0 /\ (cos.err > 0 <=> cos.c > 0)

Clamp_none(cos) == cos
\* max(-1.0, min(1.0, cos_angle))
Clamp(cos) == IF OutOfDomain(cos) THEN [cos EXCEPT !.err = 0] ELSE cos

\* math.acos raises ValueError outside [-1, 1]
acos(cos) == [raised |-> OutOfDomain(cos), angle |-> [c |-> cos.c, s |-> cos.s]]

\* the outcome of a call: whether it raised, and the angle returned
angle_between_call(line1, line2, err) ==
    IF length(line1) = 0 \/ length(line2) = 0
    THEN [raised |-> FALSE, angle |-> [c |-> 1, s |-> 0]]
    ELSE acos(Clamp(cos_angle(line1, line2, err)))

AngleBetweenCall ==
    /\ entry = "angle_between"
    /\ pc = "call"
    /\ outcome' = <<angle_between_call(lines[1], lines[2], rounding)>>
    /\ pc' = "done"
    /\ calls' = Append(calls, "angle_between")
    /\ UNCHANGED <<lines, texts, config, line_lengths, meeting_lines, used_barbs, arrows,
                   i, arrow_leaders, boundary_lines, passes, run, prev_arrows>>
    /\ UNCHANGED <<mainVars, rounding, delVars>>

(***************************************************************************)
(* del_demension.py: main, process_file and DXFCleaner.clean               *)
(***************************************************************************)
\* the values main assigns in place of the parsed arguments
HardCodedArguments ==
    [only_dimensions |-> FALSE, only_annotations |-> FALSE, remove_auxiliary_lines |-> TRUE,
     search_radius |-> 600]

\* the removal options decided from the three switches
RemovalOptions(args) ==
    IF args.only_dimensions
    THEN [remove_dimensions |-> TRUE, remove_annotations |-> FALSE,
          remove_auxiliary |-> args.remove_auxiliary_lines,
          search_radius |-> args.search_radius]
    ELSE IF args.only_annotations
    THEN [remove_dimensions |-> FALSE, remove_annotations |-> TRUE,
          remove_auxiliary |-> args.remove_auxiliary_lines,
          search_radius |-> args.search_radius]
    ELSE [remove_dimensions |-> TRUE, remove_annotations |-> TRUE,
          remove_auxiliary |-> args.remove_auxiliary_lines,
          search_radius |-> args.search_radius]

\* main up to the call of process_file: the command line is not parsed
DelMain ==
    /\ entry = "del_demension"
    /\ pc = "main"
    /\ IF drawing.status = "missing"
       THEN /\ pc' = "returned"
            /\ UNCHANGED options
       ELSE /\ pc' = "process_file"
            /\ options' = <<RemovalOptions(HardCodedArguments)>>
    /\ calls' = Append(calls, "main")
    /\ UNCHANGED <<lines, texts, config, line_lengths, meeting_lines, used_barbs, arrows,
                   i, arrow_leaders, boundary_lines, passes, run, prev_arrows>>
    /\ UNCHANGED <<mainVars, angleVars, argv, removals, cleaner>>

clean_annotationsFirst(remove_dimensions, remove_annotations, remove_auxiliary) ==
    (IF remove_annotations THEN <<"remove_annotations">> ELSE <<>>)
    \o (IF remove_dimensions THEN <<"remove_dimensions">> ELSE <<>>)
    \o (IF remove_auxiliary THEN <<"remove_auxiliary_lines">> ELSE <<>>)

\* DXFCleaner.clean: the removal steps in the order in which they run
clean(remove_dimensions, remove_annotations, remove_auxiliary) ==
    (IF remove_auxiliary THEN <<"remove_auxiliary_lines">> ELSE <<>>)
    \o (IF remove_dimensions THEN <<"remove_dimensions">> ELSE <<>>)
    \o (IF remove_annotations THEN <<"remove_annotations">> ELSE <<>>)

\* an entity of the modelspace: a TEXT or MTEXT has an insert point, a LINE
\* a start and an end, a SOLID four vertices at the corners of the
\* rectangle from start to end, an INSERT the name of its block
Entity(dxftype, layer, start, end) ==
    [dxftype |-> dxftype, layer |-> layer, start |-> start, end |-> end, name |-> ""]

Insert(layer, name) ==
    [dxftype |-> "INSERT", layer |-> layer, start |-> Point(0, 0), end |-> Point(0, 0),
     name |-> name]

\* the mean of the four vertices of a SOLID
solid_center(solid) ==
    Point((2 * solid.start.x + 2 * solid.end.x) \div 4, (2 * solid.start.y + 2 * solid.end.y) \div 4)

\* max(width, height) of the vertices of a SOLID
solid_size(solid) ==
    LET width == Abs(solid.end.x - solid.start.x)
        height == Abs(solid.end.y - solid.start.y)
    IN  IF width > height THEN width ELSE height

\* msp.query(dxftype): the places of the entities of a type, in order
query(msp, dxftype) ==
    SelectSeq([k \in 1..Len(msp) |-> k], LAMBDA k : msp[k].dxftype = dxftype)

\* msp.delete_entity for each entity at one of the places
delete_entities(msp, places) ==
    LET keep == SelectSeq([k \in 1..Len(msp) |-> k], LAMBDA k : k \notin places)
    IN  [k \in 1..Len(keep) |-> msp[keep[k]]]

\* the last of a list of places, or 0
LastOf(places) == IF places = <<>> THEN 0 ELSE places[Len(places)]

\* _is_different_angle: the directions differ by 10 degrees or more
\* (atan2(0, 0) is 0, the direction of the x axis)
_is_different_angle(line1, line2) ==
    LET dir(l) == IF l.start = l.end THEN <<1, 0>>
                  ELSE <<l.end.x - l.start.x, l.end.y - l.start.y>>
        v1 == dir(line1)
        v2 == dir(line2)
        diff == [c |-> dot_product(v1, v2), s |-> Abs(v1[1] * v2[2] - v1[2] * v2[1])]
    IN  AngleCmp(diff, 100) >= 0

\* the first other line that continues a line at temp_start, as
\* <<place, final_start>>, or <<>>
RECURSIVE ConnectedLine(_, _, _, _)
ConnectedLine(msp, line_data, l, temp_start) ==
    IF line_data = <<>> THEN <<>>
    ELSE LET o == Head(line_data)
             other_line == msp[o]
             rest == ConnectedLine(msp, Tail(line_data), l, temp_start)
         IN  IF o = l THEN rest
             ELSE IF distance(other_line.start, temp_start) <= 60 * 60
                  THEN IF _is_different_angle(msp[l], other_line)
                       THEN <<o, other_line.end>> ELSE rest
             ELSE IF distance(other_line.end, temp_start) <= 60 * 60
                  THEN IF _is_different_angle(msp[l], other_line)
                       THEN <<o, other_line.start>> ELSE rest
             ELSE rest

\* _build_auxiliary_candidates: for each line with an arrow at an endpoint,
\* the lines of the candidate, its start point and its arrow
_build_auxiliary_candidates(msp, line_data, solids) ==
    LET candidate(l) ==
            LET arrow_at_start ==
                    LastOf(SelectSeq(solids, LAMBDA a :
                        distance(solid_center(msp[a]), msp[l].start) <= 100 * 100))
                arrow_at_end ==
                    LastOf(SelectSeq(solids, LAMBDA a :
                        distance(solid_center(msp[a]), msp[l].end) <= 100 * 100))
                temp_start == IF arrow_at_end # 0 THEN msp[l].start ELSE msp[l].end
                current_arrow == IF arrow_at_end # 0 THEN arrow_at_end ELSE arrow_at_start
                connected == ConnectedLine(msp, line_data, l, temp_start)
            IN  IF arrow_at_start = 0 /\ arrow_at_end = 0 THEN <<>>
                ELSE IF connected # <<>>
                THEN <<[lines |-> {l, connected[1]}, start_point |-> connected[2],
                        arrow |-> current_arrow]>>
                ELSE <<[lines |-> {l}, start_point |-> temp_start, arrow |-> current_arrow]>>
    IN  UNION {Elements(candidate(line_data[k])) : k \in 1..Len(line_data)}

\* remove_auxiliary_lines: the modelspace left, the count returned and the
\* number of text positions collected (search_radius in grid units)
remove_auxiliary_lines(msp, search_radius) ==
    LET text_positions == query(msp, "TEXT") \o query(msp, "MTEXT")
        solids == query(msp, "SOLID")
        line_data == query(msp, "LINE")
        found == {c \in _build_auxiliary_candidates(msp, line_data, solids) :
                    \E t \in Elements(text_positions) :
                        distance(c.start_point, msp[t].start) <= search_radius * search_radius}
        lines_to_remove == UNION {c.lines : c \in found}
        arrows_to_remove == {c.arrow : c \in found}
    IN  IF text_positions = <<>>
        THEN [msp |-> msp, count |-> 0, text_positions |-> 0]
        ELSE [msp |-> delete_entities(msp, lines_to_remove \cup arrows_to_remove),
              count |-> Cardinality(lines_to_remove) + Cardinality(arrows_to_remove),
              text_positions |-> Len(text_positions)]

\* the layer names that contain DIM, DIMENSION or DEFPOINTS in upper case
dim_layer_patterns == {"DIM", "Dimension", "Defpoints"}

\* the block names that contain _DIM, DIMENSION, _ARROW or DIMBLK in upper case
dim_block_patterns == {"_DIM1", "_ARROW", "DIMBLK"}

\* remove_dimensions: the DIMENSION entities, the SOLIDs smaller than 10 mm,
\* the LINEs on a layer whose name contains DIM, the dimension blocks and
\* the INSERTs of such blocks, then every entity left on a dimension layer
\* of the layer table, and those layers
remove_dimensions(d) ==
    LET dimensions == Elements(query(d.msp, "DIMENSION"))
        msp1 == delete_entities(d.msp, dimensions)
        arrow_solids == {k \in Elements(query(msp1, "SOLID")) : solid_size(msp1[k]) < 200}
        msp2 == delete_entities(msp1, arrow_solids)
        dim_lines == {k \in Elements(query(msp2, "LINE")) :
                        msp2[k].layer \in {"DIM", "Dimension"}}
        msp3 == delete_entities(msp2, dim_lines)
        inserts == {k \in Elements(query(msp3, "INSERT")) : msp3[k].name \in dim_block_patterns}
        msp4 == delete_entities(msp3, inserts)
        layers_to_remove == d.layers \cap dim_layer_patterns
        entities == {k \in 1..Len(msp4) : msp4[k].layer \in layers_to_remove}
    IN  [doc |-> [msp |-> delete_entities(msp4, entities),
                  layers |-> d.layers \ layers_to_remove,
                  blocks |-> d.blocks \ dim_block_patterns],
         count |-> Cardinality(dimensions) + Cardinality(arrow_solids) + Cardinality(dim_lines)
                   + Cardinality(inserts) + Cardinality(entities)]

\* remove_annotations: TEXT, MTEXT, LEADER and MULTILEADER entities
remove_annotations(msp) ==
    LET of(t) == Len(query(msp, t))
    IN  [msp |-> SelectSeq(msp, LAMBDA e : e.dxftype \notin
                                    {"TEXT", "MTEXT", "LEADER", "MULTILEADER"}),
         texts |-> of("TEXT"), mtexts |-> of("MTEXT"), leaders |-> of("LEADER"),
         multileaders |-> of("MULTILEADER"),
         count |-> of("TEXT") + of("MTEXT") + of("LEADER") + of("MULTILEADER")]

\* DXFCleaner after load: the document, the counters, total_removed of
\* clean, the counts returned by the steps and the text positions that
\* remove_auxiliary_lines collected
DXFCleaner(d) ==
    [doc |-> d,
     removed_count |-> [dimensions |-> 0, texts |-> 0, mtexts |-> 0, leaders |-> 0,
                        multileaders |-> 0, total |-> 0],
     total_removed |-> 0,
     returned |-> <<>>,
     text_positions |-> <<>>]

\* one removal step of clean
RemovalStep(self, step, search_radius) ==
    IF step = "remove_auxiliary_lines"
    THEN LET r == remove_auxiliary_lines(self.doc.msp, search_radius)
         IN  [self EXCEPT !.doc.msp = r.msp,
                          !.total_removed = @ + r.count,
                          !.returned = Append(@, r.count),
                          !.text_positions = Append(@, r.text_positions)]
    ELSE IF step = "remove_dimensions"
    THEN LET r == remove_dimensions(self.doc)
         IN  [self EXCEPT !.doc = r.doc,
                          !.removed_count.dimensions = r.count,
                          !.total_removed = @ + r.count,
                          !.returned = Append(@, r.count)]
    ELSE LET r == remove_annotations(self.doc.msp)
         IN  [self EXCEPT !.doc.msp = r.msp,
                          !.removed_count.texts = @ + r.texts,
                          !.removed_count.mtexts = @ + r.mtexts,
                          !.removed_count.leaders = @ + r.leaders,
                          !.removed_count.multileaders = @ + r.multileaders,
                          !.total_removed = @ + r.count,
                          !.returned = Append(@, r.count)]

\* the removal steps of clean run in order, then the total is stored
RECURSIVE RunClean(_, _, _)
RunClean(self, steps, search_radius) ==
    IF steps = <<>>
    THEN [self EXCEPT !.removed_count.total = self.total_removed]
    ELSE RunClean(RemovalStep(self, Head(steps), search_radius), Tail(steps), search_radius)

\* process_file: load, clean, save
ProcessFile ==
    /\ entry \in {"del_demension", "process_file"}
    /\ pc = "process_file"
    /\ IF drawing.status = "ok"
       THEN /\ removals' = clean(options[1].remove_dimensions, options[1].remove_annotations,
                                 options[1].remove_auxiliary)
            /\ cleaner' = <<RunClean(DXFCleaner(drawing.doc), removals',
                                     options[1].search_radius)>>
            /\ pc' = "done"
       ELSE /\ pc' = "returned"
            /\ UNCHANGED <<removals, cleaner>>
    /\ calls' = Append(calls, "process_file")
    /\ UNCHANGED <<lines, texts, config, line_lengths, meeting_lines, used_barbs, arrows,
                   i, arrow_leaders, boundary_lines, passes, run, prev_arrows>>
    /\ UNCHANGED <<mainVars, angleVars, argv, options>>

(***************************************************************************)
(* Inputs                                                                  *)
(***************************************************************************)
\* the example of the specification: a 10 mm shaft ending at the origin
\* and two barbs leaving the origin
S1 == Line(Point(200, 0), Point(0, 0))
B1 == Line(Point(0, 0), Point(-40, 20))
B2 == Line(Point(0, 0), Point(-40, -20))
\* a shorter shaft ending at the same tip
S2 == Line(Point(160, 0), Point(0, 0))
\* barbs at the start point of S1; D2 misses the point by 0.05 mm in x and y
D1 == Line(Point(240, 20), Point(200, 0))
D2 == Line(Point(241, -19), Point(201, 1))
\* a segment of the length of B1 leaving the origin at another angle (63.4 deg)
N1 == Line(Point(0, 0), Point(-20, 40))
\* a segment in the direction of B2 but 1.1 mm longer than B1
L1 == Line(Point(0, 0), Point(-60, -30))
\* a symmetric pair at 75.96 deg to the shaft
W1 == Line(Point(0, 0), Point(-10, 40))
W2 == Line(Point(0, 0), Point(-10, -40))

\* two short segments leaving the end point of B1 at 45 deg to it
T1 == Line(Point(-40, 20), Point(-43, 19))
T2 == Line(Point(-40, 20), Point(-41, 23))

\* segments that compete for barbs / shafts with arrow heads at both ends
TopologyPool == {S1, S2, B1, B2, D1, D2}

\* an arrow whose barb carries an arrow head of its own
NestedPool == {S1, B1, B2, T1, T2}

\* candidate barbs that fail one condition of the symmetry classifier each
ClassifierPool == {S1, B1, B2, N1, L1, W1, W2}

\* a shaft from (5,5) mm to (15,5) mm with barbs at its end point, and the
\* same drawing with two more barbs at its start point
ES == Line(Point(100, 100), Point(300, 100))
EB1 == Line(Point(300, 100), Point(340, 120))
EB2 == Line(Point(300, 100), Point(340, 80))
ED1 == Line(Point(60, 120), Point(100, 100))
ED2 == Line(Point(60, 80), Point(100, 100))

MatchDrawings == {<<ES, EB1, EB2>>, <<ES, EB1, ED1, EB2, ED2>>}

\* label positions: (5,6) mm, (20,20) mm, (5,4) mm, the middle of ES and the end of ES
TextPositions ==
    {Point(100, 120), Point(400, 400), Point(100, 80), Point(200, 100), Point(300, 100)}

\* the default configuration, and one with a text cutoff of 0.5 mm
Configs == {CONFIG, [CONFIG EXCEPT !.LEADER_ARROW_MATCHING.max_distance = 10]}

\* a second arrow parallel to S1, 3 mm above it, with its tip at (0,3) mm
S3 == Line(Point(200, 60), Point(0, 60))
B3 == Line(Point(0, 60), Point(-40, 80))
B4 == Line(Point(0, 60), Point(-40, 40))
\* an arrow with a vertical shaft ending 1.4 mm from the tip of S1
SB == Line(Point(-20, 180), Point(-20, -20))
BB1 == Line(Point(-20, -20), Point(0, -60))
BB2 == Line(Point(-20, -20), Point(-40, -60))

\* a vertical segment starting 1.8 mm from the tips of S1 and of S3
V == Line(Point(-20, 30), Point(-20, 130))
\* a vertical segment whose end point alone is near the tip of S1 (3.2 mm)
VR == Line(Point(-20, -200), Point(-20, -60))
\* a segment at 45 deg starting where V starts
Q == Line(Point(-20, 30), Point(20, 70))
\* a vertical segment 7.5 mm from the tip of S1
F == Line(Point(-150, 0), Point(-150, 100))
\* a vertical segment starting exactly 5 mm from the tip of S1
E == Line(Point(-100, 0), Point(-100, -50))
\* segments at 89.71 deg and at 89.43 deg to a horizontal shaft
P1 == Line(Point(-20, -150), Point(-19, 50))
P2 == Line(Point(-20, -50), Point(-19, 50))

\* the segments of the arrows of a drawing, and the other segments that may
\* follow them; SB, S1 and S3 occur a second time as separate segments
BoundaryScenes ==
    {<< <<S1, B1, B2>>, {V, VR, Q, F, E, P1, P2} >>,
     << <<S1, B1, B2, S3, B3, B4>>, {V, VR, Q, F, E, P1, P2} >>,
     << <<S3, B3, B4, S1, B1, B2>>, {V, VR, Q, F, E, P1, P2} >>,
     << <<S1, B1, B2, SB, BB1, BB2>>, {V, SB, S1} >>,
     << <<S1, S3, B1, B2, B3, B4>>, {V, S3, S1} >>}

\* barbs at 4.29 deg and at 5.71 deg to the shaft S1, and a segment of
\* length zero at its tip
X4 == Line(Point(0, 0), Point(-40, 3))
X5 == Line(Point(0, 0), Point(-40, -3))
Y4 == Line(Point(0, 0), Point(-40, 4))
Y5 == Line(Point(0, 0), Point(-40, -4))
Z == Line(Point(0, 0), Point(0, 0))

\* candidate barbs that are parallel to the shaft within the threshold, or
\* just not
ParallelPool == {S1, X4, X5, Y4, Y5, Z}

\* S1 reversed
R1 == Line(Point(0, 0), Point(200, 0))

\* pairs of these are parallel, antiparallel, perpendicular, oblique or
\* have a member of length zero
AnglePool == {S1, S2, R1, B1, V, X4, Z}

\* rounding errors of the cosine, in ulps
Rounding == {-1, 0, 1}

\* the drawings given to main
MainDrawings ==
    {<<>>, <<ES, EB1, EB2>>, <<S1, B1, B2, V, Q>>, <<S1, B1, B2, S3, B3, B4, V>>}

\* barbs in the directions of B1 and B2 that are 0.11 mm longer
C1 == Line(Point(0, 0), Point(-42, 21))
C2 == Line(Point(0, 0), Point(-42, -21))

\* several pairs of candidate barbs qualify at the tip of S1
FitPool == {S1, B1, B2, C1, C2}

\* two shafts ending at the same tip with four candidate barbs
ContentionDrawings ==
    {<<S1, S2, B1, C2, B2, C1>>, <<S1, S2, B1, B2, C1, C2>>, <<S2, S1, B1, C2, B2, C1>>}

\* a segment of 0.1 mm and shorter segments near it: J0 starts at the same
\* distance from both of its endpoints, J1 is nearest to its end point, J2
\* starts 0.112 mm from its start point
A0 == Line(Point(0, 0), Point(2, 0))
J0 == Line(Point(1, 1), Point(1, 2))
J1 == Line(Point(2, 1), Point(2, 2))
J2 == Line(Point(-1, 2), Point(-1, 3))

TiePool == {A0, J0, J1, J2}

\* lists of at most n elements of the pool
RECURSIVE Lists(_, _)
Lists(pool, n) ==
    IF n = 0 THEN {<<>>}
    ELSE LET shorter == Lists(pool, n - 1)
         IN  shorter \cup {Append(l, x) : l \in shorter, x \in pool}

\* the lists of Lists(pool, n) without repetition
InjectiveLists(pool, n) ==
    {l \in Lists(pool, n) : \A a, b \in 1..Len(l) : a # b => l[a] # l[b]}

\* the drawings of the boundary scenes
BoundaryDrawings ==
    UNION {{scene[1] \o others : others \in InjectiveLists(scene[2], MaxOthers)} :
            scene \in BoundaryScenes}

\* the arguments of the functions when they are called directly
Inputs ==
    /\ \/ /\ lines \in InjectiveLists(TopologyPool, MaxLines)
                        \cup InjectiveLists(ClassifierPool, MaxLines)
                        \cup InjectiveLists(NestedPool, MaxLines)
                        \cup InjectiveLists(ParallelPool, MaxLines)
                        \cup InjectiveLists(FitPool, MaxLines)
                        \cup InjectiveLists(TiePool, MaxLines)
                        \cup ContentionDrawings
          /\ texts = extract_texts(<<Point(200, 20), Point(100, 0)>>)
          /\ config = CONFIG
       \/ /\ lines \in MatchDrawings
          /\ texts \in {extract_texts(l) : l \in Lists(TextPositions, MaxTexts)}
          /\ config \in Configs
       \/ /\ lines \in BoundaryDrawings
          /\ texts = extract_texts(<<Point(-20, 30), Point(200, 20)>>)
          /\ config = CONFIG

NoFile == [status |-> "none", lines |-> <<>>, texts |-> <<>>]
NoArguments ==
    [only_dimensions |-> FALSE, only_annotations |-> FALSE, remove_auxiliary_lines |-> FALSE,
     search_radius |-> 1000]

\* the files main may be pointed at: readable, missing, or not a valid DXF file
Files ==
    {[status |-> st, lines |-> l, texts |-> <<Point(-20, 30), Point(200, 20)>>] :
        st \in {"ok", "missing", "invalid"}, l \in MainDrawings}

NothingDetected ==
    /\ line_lengths = <<>>
    /\ meeting_lines = <<>>
    /\ used_barbs = {}
    /\ arrows = <<>>
    /\ i = 0
    /\ arrow_leaders = <<>>
    /\ boundary_lines = <<>>
    /\ passes = <<>>
    /\ run = 1
    /\ prev_arrows = <<>>
    /\ calls = <<>>

NoPipeline ==
    /\ drawing = NoFile
    /\ detect_ex_leaders = ON_DETECT_EX_LEADERS
    /\ doc = None
    /\ reports = <<>>

NoAngleCall == rounding = 0 /\ outcome = <<>>

NoCleaning == argv = NoArguments /\ options = <<>> /\ removals = <<>> /\ cleaner = <<>>

\* the functions of the pipeline called directly on a list of segments
InitFunctions ==
    /\ entry = "functions"
    /\ Inputs
    /\ pc = "detect"
    /\ NothingDetected /\ NoPipeline /\ NoAngleCall /\ NoCleaning

\* main of chk_demension.py, with either value of the setting
InitMain ==
    /\ entry = "main"
    /\ drawing \in Files
    /\ detect_ex_leaders \in BOOLEAN
    /\ doc = None
    /\ reports = <<>>
    /\ lines = <<>>
    /\ texts = <<>>
    /\ config = CONFIG
    /\ pc = "main"
    /\ NothingDetected /\ NoAngleCall /\ NoCleaning

\* one call of angle_between on two segments
InitAngle ==
    /\ entry = "angle_between"
    /\ lines \in {<<a, b>> : a, b \in AnglePool}
    /\ rounding \in Rounding
    /\ outcome = <<>>
    /\ texts = <<>>
    /\ config = CONFIG
    /\ pc = "call"
    /\ NothingDetected /\ NoPipeline /\ NoCleaning

\* the entities of the drawings given to the cleaner: a label with a
\* straight dimension line and its arrow 20 mm away, a second line that
\* bends the dimension line away from the label, a label and a line on a
\* dimension layer, a dimension, a leader, the reference of an arrow block
\* and an outline
CleanerEntities ==
    <<Entity("TEXT", "0", Point(0, 0), Point(0, 0)),
      Entity("LINE", "0", Point(400, 0), Point(1400, 0)),
      Entity("SOLID", "0", Point(1360, 0), Point(1440, 80)),
      Entity("LINE", "0", Point(400, 0), Point(400, 900)),
      Entity("MTEXT", "DIM", Point(4000, 0), Point(4000, 0)),
      Entity("DIMENSION", "0", Point(0, 0), Point(0, 0)),
      Entity("LINE", "DIM", Point(0, 2000), Point(4000, 2000)),
      Entity("LEADER", "0", Point(0, 0), Point(0, 0)),
      Insert("0", "_ARROW"),
      Entity("LINE", "0", Point(0, 4000), Point(4000, 4000))>>

\* a document: a modelspace, the layer table and the blocks of its entities
CleanerDocument(msp) ==
    [msp |-> msp,
     layers |-> {"0"} \cup {msp[k].layer : k \in 1..Len(msp)},
     blocks |-> {msp[k].name : k \in 1..Len(msp)} \ {""}]

\* the documents made of some of the entities, in their order
CleanerDocuments ==
    {CleanerDocument(delete_entities(CleanerEntities, out)) :
        out \in SUBSET (1..Len(CleanerEntities))}

\* the input files of the cleaner
CleanerFiles ==
    {[status |-> "ok", lines |-> <<>>, texts |-> <<>>, doc |-> d] : d \in CleanerDocuments}
    \cup {[status |-> st, lines |-> <<>>, texts |-> <<>>, doc |-> CleanerDocument(<<>>)] :
            st \in {"missing", "invalid"}}

\* main of del_demension.py with some options on the command line
InitClean ==
    /\ entry = "del_demension"
    /\ argv \in [only_dimensions : BOOLEAN, only_annotations : BOOLEAN,
                 remove_auxiliary_lines : BOOLEAN, search_radius : {600}]
    /\ drawing \in {f \in CleanerFiles : Len(f.doc.msp) \in {0, Len(CleanerEntities)}}
    /\ options = <<>>
    /\ removals = <<>>
    /\ cleaner = <<>>
    /\ detect_ex_leaders = ON_DETECT_EX_LEADERS
    /\ doc = None
    /\ reports = <<>>
    /\ lines = <<>>
    /\ texts = <<>>
    /\ config = CONFIG
    /\ pc = "main"
    /\ NothingDetected /\ NoAngleCall

\* process_file called with any removal options, on a file that loads or not
InitProcess ==
    /\ entry = "process_file"
    /\ argv = NoArguments
    /\ options \in {<<o>> : o \in [remove_dimensions : BOOLEAN, remove_annotations : BOOLEAN,
                                     remove_auxiliary : BOOLEAN, search_radius : {600, 1000}]}
    /\ drawing \in CleanerFiles
    /\ removals = <<>>
    /\ cleaner = <<>>
    /\ detect_ex_leaders = ON_DETECT_EX_LEADERS
    /\ doc = None
    /\ reports = <<>>
    /\ lines = <<>>
    /\ texts = <<>>
    /\ config = CONFIG
    /\ pc = "process_file"
    /\ NothingDetected /\ NoAngleCall

Init == InitFunctions \/ InitMain \/ InitAngle \/ InitClean \/ InitProcess

Next ==
    \/ LengthPass
    \/ MeetingPass
    \/ CheckStart
    \/ CheckEnd
    \/ AssignIds
    \/ Redetect
    \/ CreateLeaders
    \/ MatchTexts
    \/ DetectBoundary
    \/ MainLoad
    \/ MainExtract
    \/ MainReport
    \/ AngleBetweenCall
    \/ DelMain
    \/ ProcessFile

Spec == Init /\ [][Next]_vars

(***************************************************************************)
(* Properties                                                              *)
(***************************************************************************)
Barbs(arrow) == {arrow.left_barb, arrow.right_barb}

\* line j is recorded in one of the two meeting lists of line a
InMeetingLists(a, j) ==
    \E side \in {"start", "end"} :
        \E k \in 1..Len(meeting_lines[a][side]) : meeting_lines[a][side][k][1] = j

\* the endpoint of the shaft that the direction flag names
NamedEndpoint(arrow) ==
    IF arrow.direction = "start" THEN lines[arrow.shaft].start_point
    ELSE lines[arrow.shaft].end_point

\* C1: in a detection run no segment is a barb (left or right) of more
\* than one Arrow of the list.
C1_BarbExclusive ==
    \A a, b \in 1..Len(arrows) :
        a # b => Barbs(arrows[a]) \cap Barbs(arrows[b]) = {}

\* two different lines had the same consumed barb in their meeting lists
C1_Witness ==
    /\ pc = "detected"
    /\ \E a, b \in 1..Len(lines) :
         /\ a # b
         /\ \E j \in used_barbs : InMeetingLists(a, j) /\ InMeetingLists(b, j)

\* C2 (as stated): every segment has at most one role in at most one Arrow:
\* no two Arrows share a shaft, no barb of one Arrow is the shaft of
\* another, and no barb belongs to two Arrows.
C2_Original ==
    \A a, b \in 1..Len(arrows) :
        a # b =>
            /\ arrows[a].shaft # arrows[b].shaft
            /\ arrows[a].shaft \notin Barbs(arrows[b])
            /\ Barbs(arrows[a]) \cap Barbs(arrows[b]) = {}

\* C2 (amended): a segment is consumed as a barb by at most one Arrow and
\* as a shaft at most once per endpoint: two Arrows never share a barb, and
\* two Arrows with the same shaft have different direction flags.
C2_RoleExclusive ==
    \A a, b \in 1..Len(arrows) :
        a # b =>
            /\ Barbs(arrows[a]) \cap Barbs(arrows[b]) = {}
            /\ (arrows[a].shaft = arrows[b].shaft
                    => arrows[a].direction # arrows[b].direction)

\* one segment is the shaft of two Arrows, and (in another run) a barb of
\* one Arrow is the shaft of another
C2_Witness ==
    /\ pc = "detected"
    /\ \E a, b \in 1..Len(arrows) :
         /\ a # b
         /\ \/ arrows[a].shaft = arrows[b].shaft
            \/ arrows[a].shaft \in Barbs(arrows[b])

\* C3: a second detection run over the same unmodified list and
\* configuration returns the Arrow list of the first run (shafts, barbs,
\* tips, directions, order and identifiers).
C3_Idempotent ==
    (pc = "detected" /\ run > 1) => arrows = prev_arrows

\* a second run has returned, the first run had consumed barbs
C3_Witness ==
    /\ pc = "detected"
    /\ run = 2
    /\ Len(prev_arrows) >= 1
    /\ used_barbs # {}

\* C4: for the input shaft (10,0)->(0,0), barbs (0,0)->(-2,1) and
\* (0,0)->(-2,-1) (in any list order) and the default tolerances, detection
\* returns exactly one Arrow: shaft the 10 mm segment, tip (0,0),
\* direction "end", barbs the two short segments.
C4_Example ==
    (/\ pc = "detected"
     /\ Len(lines) = 3
     /\ {lines[k] : k \in 1..3} = {S1, B1, B2}
     /\ config = CONFIG)
    => /\ Len(arrows) = 1
       /\ lines[arrows[1].shaft] = S1
       /\ arrows[1].tip_point = Point(0, 0)
       /\ arrows[1].direction = "end"
       /\ {lines[j] : j \in Barbs(arrows[1])} = {B1, B2}

C4_Witness ==
    /\ pc = "detected"
    /\ lines = <<S1, B1, B2>>
    /\ config = CONFIG
    /\ Len(arrows) = 1

\* C5: every Arrow satisfies the Arrow invariant: both barbs strictly
\* shorter than the shaft, each barb's angle to the shaft at most
\* arrow_angle_max, barb lengths differing by at most barb_length_diff_max,
\* barb angles differing by at most barb_angle_diff_max.
C5_ArrowInvariant ==
    \A a \in 1..Len(arrows) :
        LET shaft == lines[arrows[a].shaft]
            left == lines[arrows[a].left_barb]
            right == lines[arrows[a].right_barb]
            cfg == config.ARROW_DETECTION
        IN  /\ length(left) < length(shaft)
            /\ length(right) < length(shaft)
            /\ AngleCmp(angle_between(shaft, left), cfg.arrow_angle_max) <= 0
            /\ AngleCmp(angle_between(shaft, right), cfg.arrow_angle_max) <= 0
            /\ ~LengthDiffExceeds(length(left), length(right), cfg.barb_length_diff_max)
            /\ AngleCmp(AngleAbsDiff(angle_between(shaft, left),
                                     angle_between(shaft, right)),
                        cfg.barb_angle_diff_max) <= 0

\* an Arrow was accepted at an endpoint where further segments met the
\* shaft and were not taken
C5_Witness ==
    /\ pc = "detected"
    /\ \E a \in 1..Len(arrows) :
         \E k \in 1..Len(meeting_lines[arrows[a].shaft][arrows[a].direction]) :
            meeting_lines[arrows[a].shaft][arrows[a].direction][k][1] \notin used_barbs

\* C6: the tip point of every Arrow is the shaft endpoint named by its
\* direction flag, and each of its two barbs has an endpoint within
\* tip_point_tolerance of that tip point.
C6_TipAndDirection ==
    \A a \in 1..Len(arrows) :
        LET arrow == arrows[a]
            tol == config.ARROW_DETECTION.tip_point_tolerance
        IN  /\ arrow.direction \in {"start", "end"}
            /\ arrow.tip_point = NamedEndpoint(arrow)
            /\ \A j \in Barbs(arrow) :
                 \/ distance(lines[j].start_point, arrow.tip_point) <= tol * tol
                 \/ distance(lines[j].end_point, arrow.tip_point) <= tol * tol

\* an Arrow at a start point with a barb that only nearly touches the tip
C6_Witness ==
    /\ pc = "detected"
    /\ \E a \in 1..Len(arrows) :
         /\ arrows[a].direction = "start"
         /\ \E j \in Barbs(arrows[a]) :
              /\ distance(lines[j].start_point, arrows[a].tip_point) > 0
              /\ distance(lines[j].end_point, arrows[a].tip_point) > 0

\* C7: the indicator position of every ArrowLeader is the shaft endpoint
\* opposite the tip: the start point for direction "end", the end point for
\* direction "start"; no leader has another direction.
C7_LeaderPosition ==
    \A k \in 1..Len(arrow_leaders) :
        LET leader == arrow_leaders[k]
            shaft == lines[leader.arrow.shaft]
        IN  /\ leader.arrow.direction \in {"start", "end"}
            /\ leader.arrow.direction = "end" => leader.leader_position = shaft.start_point
            /\ leader.arrow.direction = "start" => leader.leader_position = shaft.end_point

\* leaders of both directions have been built
C7_Witness ==
    /\ pc = "assembled"
    /\ \E k, m \in 1..Len(arrow_leaders) :
         /\ arrow_leaders[k].arrow.direction = "start"
         /\ arrow_leaders[m].arrow.direction = "end"

\* C8: create_arrow_leaders returns one ArrowLeader per Arrow in Arrow
\* order, with sequential identifiers in that order, each created with no
\* matched text and an empty boundary list.
C8_OneLeaderPerArrow ==
    pc = "assembled" =>
        /\ Len(arrow_leaders) = Len(arrows)
        /\ \A k \in 1..Len(arrow_leaders) :
             /\ arrow_leaders[k].arrow = arrows[k]
             /\ arrow_leaders[k].id = <<"A", k>>
             /\ passes = <<>> =>
                  /\ arrow_leaders[k].matched_text = NoText
                  /\ arrow_leaders[k].matched_boundaries = <<>>

\* two leaders have just been created
C8_Witness ==
    /\ pc = "assembled"
    /\ passes = <<>>
    /\ Len(arrow_leaders) >= 2

TextMatched == \E k \in 1..Len(passes) : passes[k] = "text"

\* the labels within the cutoff of a position (squared distances)
WithinCutoff(position) ==
    {t \in 1..Len(texts) :
        distance(position, texts[t].position)
            < config.LEADER_ARROW_MATCHING.max_distance
              * config.LEADER_ARROW_MATCHING.max_distance}

\* C9: after text matching each leader's matched text is a label of minimum
\* distance to the indicator position among the labels within the cutoff,
\* and the leader is unmatched exactly when no label is within the cutoff;
\* with indicator (5,5) and labels at (5,6) and (20,20) the (5,6) label is
\* matched under cutoff 10 and nothing is matched under cutoff 0.5.
C9_NearestWithinCutoff ==
    TextMatched =>
        \A k \in 1..Len(arrow_leaders) :
            LET leader == arrow_leaders[k]
                near == WithinCutoff(leader.leader_position)
            IN  /\ leader.matched_text = NoText <=> near = {}
                /\ leader.matched_text # NoText =>
                     /\ leader.matched_text \in near
                     /\ \A t \in near :
                          distance(leader.leader_position, texts[leader.matched_text].position)
                            <= distance(leader.leader_position, texts[t].position)
                /\ (/\ leader.leader_position = Point(100, 100)
                    /\ {texts[t].position : t \in 1..Len(texts)}
                         = {Point(100, 120), Point(400, 400)})
                   => IF config.LEADER_ARROW_MATCHING.max_distance = 200
                      THEN /\ leader.matched_text # NoText
                           /\ texts[leader.matched_text].position = Point(100, 120)
                      ELSE leader.matched_text = NoText

\* a leader at (5,5) with a farther label listed before the nearest one,
\* both within the cutoff, and the (20,20) label outside it
C9_Witness ==
    /\ TextMatched
    /\ \E k \in 1..Len(arrow_leaders) :
         LET leader == arrow_leaders[k]
         IN  /\ leader.leader_position = Point(100, 100)
             /\ leader.matched_text # NoText
             /\ \E t \in WithinCutoff(leader.leader_position) :
                  /\ t < leader.matched_text
                  /\ distance(leader.leader_position, texts[t].position)
                       > distance(leader.leader_position, texts[leader.matched_text].position)
             /\ \E t \in 1..Len(texts) :
                  /\ texts[t].position = Point(400, 400)
                  /\ t \notin WithinCutoff(leader.leader_position)

\* C10: after one text matching run on fresh leaders, a label's
\* back-reference list holds exactly the leaders whose matched text is that
\* label, each once.
C10_BackReferences ==
    TextMatched =>
        \A t \in 1..Len(texts) :
            LET refs == texts[t].matched_arrows
            IN  /\ \A a, b \in 1..Len(refs) : a # b => refs[a] # refs[b]
                /\ {refs[a] : a \in 1..Len(refs)}
                     = {k \in 1..Len(arrow_leaders) : arrow_leaders[k].matched_text = t}

\* two leaders hold the same label
C10_Witness ==
    /\ TextMatched
    /\ \E t \in 1..Len(texts) : Len(texts[t].matched_arrows) = 2

\* boundary detection has run on the leaders
BoundaryDetected == \E k \in 1..Len(passes) : passes[k] = "boundary"

\* an endpoint of the segment lies within max_distance_to_arrow of the tip
NearTip(leader, line) ==
    \E p \in {line.start_point, line.end_point} :
        distance(leader.arrow.tip_point, p)
            <= config.LEADER_BOUNDARY_MATCHING.max_distance_to_arrow
               * config.LEADER_BOUNDARY_MATCHING.max_distance_to_arrow

\* the angle between the shaft and the segment lies in the perpendicular band
Perpendicular(leader, line) ==
    LET angle == angle_between(lines[leader.arrow.shaft], line)
    IN  /\ AngleCmp(angle, config.LEADER_BOUNDARY_MATCHING.perpendicular_angle_min) >= 0
        /\ AngleCmp(angle, config.LEADER_BOUNDARY_MATCHING.perpendicular_angle_max) <= 0

\* C11: after boundary detection a segment that is no constituent of any
\* arrow is in a leader's boundary list exactly when an endpoint of it lies
\* within max_distance_to_arrow of the leader's tip and its angle to the
\* shaft lies in [perpendicular_angle_min, perpendicular_angle_max]; for the
\* horizontal shaft S1 the vertical segment V near the tip is listed and
\* the 45 degree segment Q is not.
C11_BoundaryIff ==
    BoundaryDetected =>
        \A l \in 1..Len(arrow_leaders) :
            LET leader == arrow_leaders[l]
            IN  /\ \A k \in 1..Len(lines) :
                     k \notin ArrowLines(arrow_leaders) =>
                        (k \in Elements(leader.matched_boundaries)
                            <=> NearTip(leader, lines[k]) /\ Perpendicular(leader, lines[k]))
                /\ lines[leader.arrow.shaft] = S1 =>
                     \A k \in 1..Len(lines) :
                        /\ lines[k] = V => k \in Elements(leader.matched_boundaries)
                        /\ lines[k] = Q => k \notin Elements(leader.matched_boundaries)

\* the leader of S1 lists a segment of which the end point alone is near
\* the tip, next to a 45 degree segment that it does not list
C11_Witness ==
    /\ BoundaryDetected
    /\ \E l \in 1..Len(arrow_leaders), k, q \in 1..Len(lines) :
         /\ lines[arrow_leaders[l].arrow.shaft] = S1
         /\ lines[k] = VR
         /\ lines[q] = Q
         /\ k \in Elements(arrow_leaders[l].matched_boundaries)
         /\ q \notin Elements(arrow_leaders[l].matched_boundaries)

\* the segments used as shaft or barb by a detected arrow
Constituents == UNION {{arrows[a].shaft} \cup Barbs(arrows[a]) : a \in 1..Len(arrows)}

\* C12: no segment used as the shaft or a barb of a detected arrow, of any
\* leader, is in a leader's boundary list or in the returned boundary
\* collection; the exclusion is by instance: a separate segment of the same
\* geometry that meets the two conditions is listed.
C12_ArrowLinesExcluded ==
    /\ \A k \in 1..Len(arrow_leaders) :
          Elements(arrow_leaders[k].matched_boundaries) \cap Constituents = {}
    /\ Elements(boundary_lines) \cap Constituents = {}
    /\ BoundaryDetected =>
          \A l \in 1..Len(arrow_leaders), k \in 1..Len(lines) :
              (/\ k \notin Constituents
               /\ \E j \in Constituents : lines[j] = lines[k]
               /\ NearTip(arrow_leaders[l], lines[k])
               /\ Perpendicular(arrow_leaders[l], lines[k]))
              => k \in Elements(arrow_leaders[l].matched_boundaries)

\* the shaft of another leader's arrow meets both conditions for a leader
\* and is left out, while a second segment of the same geometry is listed
C12_Witness ==
    /\ BoundaryDetected
    /\ \E l, m \in 1..Len(arrow_leaders), k \in 1..Len(lines) :
         LET j == arrow_leaders[m].arrow.shaft
         IN  /\ l # m
             /\ k # j
             /\ lines[k] = lines[j]
             /\ NearTip(arrow_leaders[l], lines[j])
             /\ Perpendicular(arrow_leaders[l], lines[j])
             /\ j \notin Elements(arrow_leaders[l].matched_boundaries)
             /\ k \in Elements(arrow_leaders[l].matched_boundaries)
             /\ k \in Elements(boundary_lines)

\* C13: a segment that is near the tips of two leaders and perpendicular to
\* both shafts is in the boundary lists of both leaders, in whichever order
\* the leaders are processed.
C13_SharedBoundary ==
    BoundaryDetected =>
        \A l, m \in 1..Len(arrow_leaders), k \in 1..Len(lines) :
            (/\ l # m
             /\ k \notin ArrowLines(arrow_leaders)
             /\ \A n \in {l, m} :
                  /\ NearTip(arrow_leaders[n], lines[k])
                  /\ Perpendicular(arrow_leaders[n], lines[k]))
            => /\ k \in Elements(arrow_leaders[l].matched_boundaries)
               /\ k \in Elements(arrow_leaders[m].matched_boundaries)

\* the leader of S3 is processed before the leader of S1 and both list V
C13_Witness ==
    /\ BoundaryDetected
    /\ \E l, m \in 1..Len(arrow_leaders), k \in 1..Len(lines) :
         /\ l < m
         /\ lines[arrow_leaders[l].arrow.shaft] = S3
         /\ lines[arrow_leaders[m].arrow.shaft] = S1
         /\ lines[k] = V
         /\ k \in Elements(arrow_leaders[l].matched_boundaries)
         /\ k \in Elements(arrow_leaders[m].matched_boundaries)

\* C14 (as stated): the boundary collection returned by boundary detection
\* is the set of boundary segments: it holds every segment matched by at
\* least one leader, and no segment more than once, also when several
\* leaders matched the segment.
C14_BoundarySet ==
    BoundaryDetected =>
        /\ Elements(boundary_lines)
             = UNION {Elements(arrow_leaders[l].matched_boundaries) : l \in 1..Len(arrow_leaders)}
        /\ \A a, b \in 1..Len(boundary_lines) : a # b => boundary_lines[a] # boundary_lines[b]

\* the calls of the pipeline passes and of the report, in the order made
PipelineCalls ==
    SelectSeq(calls, LAMBDA c : c \in {"detect_arrows_in_drawing", "create_arrow_leaders",
                                       "match_texts_to_arrows", "detect_boundary_lines",
                                       "generate_report"})

Called(f) == \E k \in 1..Len(calls) : calls[k] = f

\* the calls made are calls of `order`, each made once and in that order
InOrder(made, order) ==
    \E pos \in [1..Len(made) -> 1..Len(order)] :
        /\ \A k \in 1..Len(made) : made[k] = order[pos[k]]
        /\ \A j, k \in 1..Len(made) : j < k => pos[j] < pos[k]

IsPrefix(made, order) ==
    Len(made) <= Len(order) /\ made = SubSeq(order, 1, Len(made))

\* C15 (as stated): main runs the passes in the order arrow detection,
\* leader assembly, text matching, boundary detection, reporting; text
\* matching has completed before boundary detection starts.
C15_Original ==
    entry = "main" =>
        /\ InOrder(PipelineCalls,
                   <<"detect_arrows_in_drawing", "create_arrow_leaders",
                     "match_texts_to_arrows", "detect_boundary_lines", "generate_report">>)
        /\ Called("detect_boundary_lines") => Called("match_texts_to_arrows")

\* C15 (amended): main runs the passes in the order arrow detection, leader
\* assembly, boundary detection, text matching, reporting; boundary
\* detection has completed before text matching starts, and with the
\* setting ON_DETECT_EX_LEADERS on no pass is left out before a later one.
C15_PassOrder ==
    entry = "main" =>
        LET order == <<"detect_arrows_in_drawing", "create_arrow_leaders",
                       "detect_boundary_lines", "match_texts_to_arrows", "generate_report">>
        IN  /\ InOrder(PipelineCalls, order)
            /\ Called("match_texts_to_arrows") => Called("detect_boundary_lines")
            /\ detect_ex_leaders => IsPrefix(PipelineCalls, order)

\* a run of main with the setting on has matched texts after it detected
\* boundaries and has written its report
C15_Witness ==
    /\ entry = "main"
    /\ pc = "done"
    /\ passes = <<"boundary", "text">>
    /\ Len(arrow_leaders) = 2
    /\ Len(PipelineCalls) = 5

\* C16 (as stated): on every run of main in which the drawing loads, arrow
\* detection, leader assembly, text matching and boundary detection have
\* all run before the report is generated.
C16_Original ==
    (entry = "main" /\ reports # <<>>) =>
        /\ Called("detect_arrows_in_drawing")
        /\ Called("create_arrow_leaders")
        /\ Called("match_texts_to_arrows")
        /\ Called("detect_boundary_lines")

\* C16 (amended): when main generates the report with the setting
\* ON_DETECT_EX_LEADERS on, the four passes have all run and the report is
\* given the arrows, leaders and boundary lines they produced; with the
\* setting off, as shipped, none of the passes has run and the report is
\* given empty arrow, leader and boundary collections.
C16_ReportInput ==
    (entry = "main" /\ reports # <<>>) =>
        /\ Len(reports) = 1
        /\ doc # None
        /\ IF detect_ex_leaders
           THEN /\ Called("detect_arrows_in_drawing")
                /\ Called("create_arrow_leaders")
                /\ Called("match_texts_to_arrows")
                /\ Called("detect_boundary_lines")
                /\ reports[1] = [arrows |-> arrows, arrow_leaders |-> arrow_leaders,
                                 boundary_lines |-> boundary_lines]
                /\ TextMatched /\ BoundaryDetected
           ELSE /\ PipelineCalls = <<"generate_report">>
                /\ reports[1] = [arrows |-> <<>>, arrow_leaders |-> <<>>,
                                 boundary_lines |-> <<>>]

\* with the shipped setting the report of a drawing that holds two arrow
\* heads is given no arrows; with the setting on it is given both
C16_Witness ==
    /\ entry = "main"
    /\ reports # <<>>
    /\ Len(lines) = 7
    /\ \/ detect_ex_leaders = ON_DETECT_EX_LEADERS /\ reports[1].arrows = <<>>
       \/ detect_ex_leaders # ON_DETECT_EX_LEADERS /\ Len(reports[1].arrows) = 2

\* C19: when the input drawing is missing or not a valid DXF file,
\* load_dxf_file returns None and main stops: nothing is extracted, no
\* pass runs and no report is generated.
C19_StopsOnLoadFailure ==
    (entry = "main" /\ drawing.status # "ok") =>
        /\ load_dxf_file(drawing) = None
        /\ doc = None
        /\ pc \in {"main", "returned"}
        /\ \A k \in 1..Len(calls) : calls[k] = "load_dxf_file"
        /\ lines = <<>> /\ texts = <<>>
        /\ arrows = <<>> /\ arrow_leaders = <<>> /\ boundary_lines = <<>>
        /\ reports = <<>>

\* main has returned after a failed load of a file that holds arrows
C19_Witness ==
    /\ entry = "main"
    /\ drawing.status \in {"missing", "invalid"}
    /\ drawing.lines # <<>>
    /\ calls = <<"load_dxf_file">>
    /\ pc = "returned"

\* the angle between the two segments is below 5 or above 175 degrees
WithinFiveDegrees(line1, line2) ==
    LET angle == angle_between(line1, line2)
    IN  AngleCmp(angle, 50) < 0 \/ AngleCmp(angle, 1750) > 0

\* C17: are_lines_parallel holds for every pair of segments whose angle is
\* below the threshold or above 180 minus the threshold; the meeting-point
\* pass records no such pair, so no detected Arrow has a barb parallel
\* (within 5 degrees) to its shaft.
C17_NoParallelBarb ==
    [](
        /\ \A a, b \in 1..Len(lines) :
              WithinFiveDegrees(lines[a], lines[b]) => are_lines_parallel(lines[a], lines[b])
        /\ \A a, j \in 1..Len(meeting_lines) :
              InMeetingLists(a, j) => ~WithinFiveDegrees(lines[a], lines[j])
        /\ \A a \in 1..Len(arrows) :
              \A j \in Barbs(arrows[a]) : ~WithinFiveDegrees(lines[arrows[a].shaft], lines[j]))

\* the shaft S1 has the pair X4, X5 (4.29 degrees) and the pair Y4, Y5
\* (5.71 degrees) at its tip, X4 and X5 first; the Arrow has Y4 and Y5
C17_Witness ==
    /\ pc = "detected"
    /\ \E a, x, y \in 1..Len(lines) :
         /\ lines[a] = S1 /\ lines[x] = X4 /\ lines[y] = Y4
         /\ x < y
         /\ X5 \in Elements(lines) /\ Y5 \in Elements(lines)
         /\ \E k \in 1..Len(arrows) :
              arrows[k].shaft = a /\ y \in Barbs(arrows[k])

\* C18: a call of angle_between never raises: for a segment of length zero
\* it returns 0, and otherwise the computed cosine is clamped into [-1, 1]
\* before acos, so the angle returned lies in [0, 180] (and is the angle
\* the passes of the pipeline work with).
C18_AngleNeverRaises ==
    (entry = "angle_between" /\ outcome # <<>>) =>
        /\ ~outcome[1].raised
        /\ (length(lines[1]) = 0 \/ length(lines[2]) = 0)
              => AngleCmp(outcome[1].angle, 0) = 0
        /\ AngleCmp(outcome[1].angle, 0) >= 0
        /\ AngleCmp(outcome[1].angle, 1800) <= 0
        /\ outcome[1].angle = angle_between(lines[1], lines[2])

\* the call returned for two segments of the same direction whose computed
\* cosine exceeded 1 by the rounding error
C18_Witness ==
    /\ entry = "angle_between"
    /\ outcome # <<>>
    /\ lines = <<S1, S2>>
    /\ OutOfDomain(cos_angle(lines[1], lines[2], rounding))
    /\ AngleCmp(outcome[1].angle, 0) = 0

\* C20 (as stated): del_demension run with --only-dimensions removes
\* dimensions only, with --only-annotations annotations only, with neither
\* both; auxiliary lines are removed only when --remove-auxiliary-lines is
\* given.
C20_CommandLine ==
    (entry = "del_demension" /\ pc = "done") =>
        LET ran == Elements(removals)
        IN  /\ argv.only_dimensions /\ ~argv.only_annotations
                => ran \ {"remove_auxiliary_lines"} = {"remove_dimensions"}
            /\ argv.only_annotations /\ ~argv.only_dimensions
                => ran \ {"remove_auxiliary_lines"} = {"remove_annotations"}
            /\ ~argv.only_dimensions /\ ~argv.only_annotations
                => ran \ {"remove_auxiliary_lines"} = {"remove_dimensions", "remove_annotations"}
            /\ "remove_auxiliary_lines" \in ran <=> argv.remove_auxiliary_lines

\* the pairs (idx1, idx2) of a meeting list whose members are both
\* unconsumed and meet the three conditions of the symmetry check
QualifyingPairs(a, list, used) ==
    {p \in (1..Len(list)) \X (1..Len(list)) :
        LET j == list[p[1]][1]
            k == list[p[2]][1]
            angle_j == angle_between(lines[a], lines[j])
            angle_k == angle_between(lines[a], lines[k])
        IN  /\ p[1] < p[2]
            /\ j \notin used /\ k \notin used
            /\ ~LengthDiffExceeds(line_lengths[j], line_lengths[k],
                                  config.ARROW_DETECTION.barb_length_diff_max)
            /\ AngleCmp(angle_j, config.ARROW_DETECTION.arrow_angle_max) <= 0
            /\ AngleCmp(angle_k, config.ARROW_DETECTION.arrow_angle_max) <= 0
            /\ AngleCmp(AngleAbsDiff(angle_j, angle_k),
                        config.ARROW_DETECTION.barb_angle_diff_max) <= 0}

\* p comes before q, or is q, in ascending (first, second) index order
PairLeq(p, q) == p[1] < q[1] \/ (p[1] = q[1] /\ p[2] <= q[2])

\* the step of the symmetry pass at one endpoint of line i
EndpointStep ==
    /\ pc \in {"check_start", "check_end"}
    /\ pc' \in {"check_start", "check_end"}

\* C21: at each shaft endpoint the symmetry pass accepts the first pair, in
\* ascending (first, second) meeting-list index order, whose members are
\* both unconsumed and that satisfies the three conditions; no later pair
\* is chosen, and when no pair qualifies no Arrow is added for the endpoint.
C21_FirstPair ==
    [][EndpointStep =>
        LET side == IF pc = "check_start" THEN "start" ELSE "end"
            list == meeting_lines[i][side]
            qualifying == QualifyingPairs(i, list, used_barbs)
        IN  IF qualifying = {}
            THEN arrows' = arrows
            ELSE /\ Len(arrows') = Len(arrows) + 1
                 /\ SubSeq(arrows', 1, Len(arrows)) = arrows
                 /\ \E p \in qualifying :
                      /\ \A q \in qualifying : PairLeq(p, q)
                      /\ arrows'[Len(arrows')].shaft = i
                      /\ arrows'[Len(arrows')].left_barb = list[p[1]][1]
                      /\ arrows'[Len(arrows')].right_barb = list[p[2]][1]]_vars

\* an Arrow holds two barbs of unequal length although a barb of exactly
\* the length of its left barb stands later in the same meeting list and
\* is left unconsumed
C21_Witness ==
    /\ pc = "detected"
    /\ \E k \in 1..Len(arrows), j \in 1..Len(lines) :
         LET arrow == arrows[k]
         IN  /\ j \notin used_barbs
             /\ j > arrow.right_barb
             /\ \E n \in 1..Len(meeting_lines[arrow.shaft][arrow.direction]) :
                  meeting_lines[arrow.shaft][arrow.direction][n][1] = j
             /\ line_lengths[j] = line_lengths[arrow.left_barb]
             /\ line_lengths[arrow.right_barb] # line_lengths[arrow.left_barb]
             /\ AngleCmp(AngleAbsDiff(angle_between(lines[arrow.shaft], lines[j]),
                                      angle_between(lines[arrow.shaft], lines[arrow.left_barb])),
                         0) = 0

\* the position of an Arrow's (shaft, endpoint) in the enumeration order of
\* the symmetry pass
Turn(a, side) == 2 * a + (IF side = "start" THEN 0 ELSE 1)

\* C22: the Arrow list is ordered by shaft index ascending and, for one
\* shaft, the start-endpoint Arrow precedes the end-endpoint Arrow; the
\* returned list carries the identifiers ARW001, ARW002, ... in list order,
\* without gaps or repeats.
C22_ArrowOrder ==
    /\ \A a, b \in 1..Len(arrows) :
          a < b =>
             \/ arrows[a].shaft < arrows[b].shaft
             \/ /\ arrows[a].shaft = arrows[b].shaft
                /\ arrows[a].direction = "start"
                /\ arrows[b].direction = "end"
    /\ pc \notin {"detect", "meeting", "check_start", "check_end"} =>
          \A k \in 1..Len(arrows) : arrows[k].id = <<"ARW", k>>

\* a returned list of two Arrows with the same shaft, which is not the
\* first segment of the drawing
C22_Witness ==
    /\ pc = "detected"
    /\ Len(arrows) = 2
    /\ arrows[1].shaft = arrows[2].shaft
    /\ arrows[1].shaft > 1

\* the barbs consumed before the turn of (a, side): those of the Arrows of
\* earlier turns
UsedAt(a, side) ==
    UNION {Barbs(arrows[m]) :
            m \in {n \in 1..Len(arrows) :
                    Turn(arrows[n].shaft, arrows[n].direction) < Turn(a, side)}}

\* at its turn (a, side) had a pair that qualified and held barb j
CouldClaim(a, side, j) ==
    \E p \in QualifyingPairs(a, meeting_lines[a][side], UsedAt(a, side)) :
        j \in {meeting_lines[a][side][p[1]][1], meeting_lines[a][side][p[2]][1]}

\* the first qualifying pair of (a, side) at its turn held barb j
FirstPairHolds(a, side, j) ==
    LET list == meeting_lines[a][side]
        qualifying == QualifyingPairs(a, list, UsedAt(a, side))
    IN  \E p \in qualifying :
            /\ \A q \in qualifying : PairLeq(p, q)
            /\ j \in {list[p[1]][1], list[p[2]][1]}

\* C23 (as stated): when several (shaft, endpoint) candidates could claim
\* the same barb, the barb goes to the candidate that comes first in
\* enumeration order: no barb of an Arrow could have been claimed by a
\* candidate of an earlier turn.
C23_Original ==
    pc = "detected" =>
        \A k \in 1..Len(arrows) : \A j \in Barbs(arrows[k]) :
            \A a \in 1..Len(lines), side \in {"start", "end"} :
                Turn(a, side) < Turn(arrows[k].shaft, arrows[k].direction)
                    => ~CouldClaim(a, side, j)

\* C23 (amended): a barb goes to the candidate that comes first in
\* enumeration order among those whose first qualifying pair holds it (a
\* candidate that could pair the barb but accepts an earlier pair leaves it
\* free); the consumed check and the marking happen in the step that
\* accepts the pair, and consumed barbs stay consumed for the rest of the run.
C23_FirstServed ==
    /\ [](pc = "detected" =>
            \A k \in 1..Len(arrows) : \A j \in Barbs(arrows[k]) :
                /\ FirstPairHolds(arrows[k].shaft, arrows[k].direction, j)
                /\ \A a \in 1..Len(lines), side \in {"start", "end"} :
                      Turn(a, side) < Turn(arrows[k].shaft, arrows[k].direction)
                          => ~FirstPairHolds(a, side, j))
    /\ [][EndpointStep =>
            /\ used_barbs \subseteq used_barbs'
            /\ IF arrows' = arrows
               THEN used_barbs' = used_barbs
               ELSE /\ Barbs(arrows'[Len(arrows')]) \cap used_barbs = {}
                    /\ used_barbs' = used_barbs \cup Barbs(arrows'[Len(arrows')])]_vars

\* the first shaft could pair a barb but accepted an earlier pair, and the
\* barb went to the second shaft, which found the accepted barbs consumed
C23_Witness ==
    /\ pc = "detected"
    /\ \E a, b \in 1..Len(arrows) :
         /\ a < b
         /\ arrows[a].shaft # arrows[b].shaft
         /\ \E j \in Barbs(arrows[b]) :
              CouldClaim(arrows[a].shaft, arrows[a].direction, j)
         /\ \E j \in Barbs(arrows[a]) :
              \E n \in 1..Len(meeting_lines[arrows[b].shaft][arrows[b].direction]) :
                  meeting_lines[arrows[b].shaft][arrows[b].direction][n][1] = j

\* segment j is recorded in the list of segment a for the given endpoint
Recorded(a, side, j) ==
    \E n \in 1..Len(meeting_lines[a][side]) : meeting_lines[a][side][n][1] = j

\* the smaller distance from a point to the two endpoints of a segment
NearestEndpoint(point, line) ==
    Min(distance(point, line.start_point), distance(point, line.end_point))

\* C24: after the meeting-point pass segment j is recorded in a meeting
\* list of segment a exactly when a # j, j is strictly shorter than a, the
\* two are not parallel and the least of the four endpoint distances is
\* within tip_point_tolerance; j is then in exactly one of the two lists, the
\* one of the endpoint of a that attains the minimum (the start endpoint on
\* a tie), and each list is in ascending segment index order.
C24_MeetingLists ==
    [](
        meeting_lines # <<>> =>
            \A a \in 1..Len(lines) :
                /\ \A j \in 1..Len(lines) :
                     LET d_start == NearestEndpoint(lines[a].start_point, lines[j])
                         d_end == NearestEndpoint(lines[a].end_point, lines[j])
                         meets == /\ a # j
                                  /\ length(lines[j]) < length(lines[a])
                                  /\ ~WithinFiveDegrees(lines[a], lines[j])
                                  /\ Min(d_start, d_end)
                                       <= config.ARROW_DETECTION.tip_point_tolerance
                                          * config.ARROW_DETECTION.tip_point_tolerance
                     IN  /\ Recorded(a, "start", j) <=> (meets /\ d_start <= d_end)
                         /\ Recorded(a, "end", j) <=> (meets /\ d_end < d_start)
                /\ \A side \in {"start", "end"} :
                     \A m, n \in 1..Len(meeting_lines[a][side]) :
                         m < n => meeting_lines[a][side][m][1] < meeting_lines[a][side][n][1])

\* a shorter segment at the same distance from both endpoints is recorded
\* at the start point, next to one recorded at the end point
C24_Witness ==
    /\ pc = "check_start"
    /\ \E a, j, k \in 1..Len(lines) :
         /\ Recorded(a, "start", j)
         /\ NearestEndpoint(lines[a].start_point, lines[j])
              = NearestEndpoint(lines[a].end_point, lines[j])
         /\ Recorded(a, "end", k)

\* the step of a pass over the leaders
PassStep(p) == passes' = Append(passes, p)

\* the list `after` is the list `before` with entries added at its end
Extends(before, after) ==
    Len(before) <= Len(after) /\ SubSeq(after, 1, Len(before)) = before

\* C25: the matching passes only add, each to its own fields:
\* match_texts_to_arrows changes only the matched text of leaders and the
\* back-reference lists of labels, detect_boundary_lines changes only the
\* boundary lists of leaders, and neither changes a segment, an Arrow, an
\* indicator position or the field the other pass fills.
C25_FrameEffects ==
    [][/\ PassStep("text") =>
            /\ lines' = lines /\ arrows' = arrows /\ boundary_lines' = boundary_lines
            /\ Len(arrow_leaders') = Len(arrow_leaders)
            /\ \A k \in 1..Len(arrow_leaders) :
                 /\ arrow_leaders'[k] = [arrow_leaders[k] EXCEPT
                                            !.matched_text = arrow_leaders'[k].matched_text]
                 /\ arrow_leaders[k].matched_text # NoText
                       => arrow_leaders'[k].matched_text = arrow_leaders[k].matched_text
            /\ Len(texts') = Len(texts)
            /\ \A t \in 1..Len(texts) :
                 /\ texts'[t].position = texts[t].position
                 /\ Extends(texts[t].matched_arrows, texts'[t].matched_arrows)
       /\ PassStep("boundary") =>
            /\ lines' = lines /\ arrows' = arrows /\ texts' = texts
            /\ Len(arrow_leaders') = Len(arrow_leaders)
            /\ \A k \in 1..Len(arrow_leaders) :
                 /\ arrow_leaders'[k] = [arrow_leaders[k] EXCEPT
                                            !.matched_boundaries =
                                                arrow_leaders'[k].matched_boundaries]
                 /\ Extends(arrow_leaders[k].matched_boundaries,
                            arrow_leaders'[k].matched_boundaries)]_vars

\* text matching has run after boundary detection on a leader that has a
\* matched text and a boundary
C25_Witness ==
    /\ Len(passes) = 2
    /\ passes[2] = "text"
    /\ \E k \in 1..Len(arrow_leaders) :
         /\ arrow_leaders[k].matched_text # NoText
         /\ arrow_leaders[k].matched_boundaries # <<>>

\* the sum of a list of counts
RECURSIVE SumOf(_)
SumOf(counts) == IF counts = <<>> THEN 0 ELSE Head(counts) + SumOf(Tail(counts))

\* the TEXT and MTEXT entities of a modelspace
TextCount(msp) == Len(query(msp, "TEXT")) + Len(query(msp, "MTEXT"))

\* C26: when clean runs with remove_auxiliary, the auxiliary-line removal is
\* the first step, before dimension and annotation removal, and it
\* collects the position of every TEXT and MTEXT of the loaded document;
\* the value clean returns, which it stores in removed_count['total'], is
\* the sum of the counts returned by the steps that ran.
C26_AuxiliaryFirst ==
    (entry \in {"del_demension", "process_file"} /\ pc = "done") =>
        LET self == cleaner[1]
        IN  /\ options[1].remove_auxiliary =>
                /\ removals[1] = "remove_auxiliary_lines"
                /\ \A k \in 2..Len(removals) : removals[k] # "remove_auxiliary_lines"
                /\ self.text_positions = <<TextCount(drawing.doc.msp)>>
            /\ Len(self.returned) = Len(removals)
            /\ self.total_removed = SumOf(self.returned)
            /\ self.removed_count.total = SumOf(self.returned)

\* the three steps have run on a drawing with labels, and each of them
\* removed something
C26_Witness ==
    /\ entry = "process_file"
    /\ pc = "done"
    /\ removals = <<"remove_auxiliary_lines", "remove_dimensions", "remove_annotations">>
    /\ cleaner[1].text_positions = <<2>>
    /\ \A k \in 1..3 : cleaner[1].returned[k] > 0
    /\ cleaner[1].removed_count.total = 9

\* C27: no two Arrows of a detection run have the same shaft and the same
\* direction, so a segment is the shaft of at most two Arrows, one at its
\* start and one at its end; the shaft and the two barbs of an Arrow are
\* three different segments of the list.
C27_OneArrowPerEndpoint ==
    [](
        /\ \A a, b \in 1..Len(arrows) :
                (arrows[a].shaft = arrows[b].shaft /\ arrows[a].direction = arrows[b].direction)
                    => a = b
        /\ \A k \in 1..Len(lines) :
                LET of == {a \in 1..Len(arrows) : arrows[a].shaft = k}
                IN  /\ Cardinality(of) <= 2
                    /\ Cardinality(of) = 2 =>
                            {arrows[a].direction : a \in of} = {"start", "end"}
        /\ \A a \in 1..Len(arrows) :
                /\ arrows[a].shaft # arrows[a].left_barb
                /\ arrows[a].shaft # arrows[a].right_barb
                /\ arrows[a].left_barb # arrows[a].right_barb)

\* a segment with an arrowhead at each end: its two Arrows hold four
\* different barbs
C27_Witness ==
    /\ entry = "functions"
    /\ pc = "detected"
    /\ \E a, b \in 1..Len(arrows) :
            /\ a # b
            /\ arrows[a].shaft = arrows[b].shaft
            /\ Cardinality({arrows[a].left_barb, arrows[a].right_barb,
                            arrows[b].left_barb, arrows[b].right_barb}) = 4

\* the labels at the least distance from a position among those within the
\* cutoff
NearestWithinCutoff(position) ==
    {t \in WithinCutoff(position) :
        \A u \in WithinCutoff(position) :
            distance(position, texts[t].position) <= distance(position, texts[u].position)}

\* C28: after text matching, a leader with several labels at the same least
\* distance within the cutoff is matched to the one that comes first in
\* the label list, and it is in the back-reference list of that label
\* only.
C28_FirstOfTied ==
    [](
        TextMatched =>
            \A l \in 1..Len(arrow_leaders) :
                LET nearest == NearestWithinCutoff(arrow_leaders[l].leader_position)
                IN  nearest # {} =>
                        /\ arrow_leaders[l].matched_text \in nearest
                        /\ \A t \in nearest : arrow_leaders[l].matched_text <= t
                        /\ \A t \in 1..Len(texts) :
                                l \in Elements(texts[t].matched_arrows)
                                    <=> t = arrow_leaders[l].matched_text)

\* a leader with two labels at the same least distance, matched to the
\* first of them while a label that is farther away comes before both
C28_Witness ==
    /\ TextMatched
    /\ \E l \in 1..Len(arrow_leaders) :
            LET nearest == NearestWithinCutoff(arrow_leaders[l].leader_position)
            IN  /\ Cardinality(nearest) >= 2
                /\ arrow_leaders[l].matched_text > 1
                /\ 1 \in WithinCutoff(arrow_leaders[l].leader_position)
                /\ texts[arrow_leaders[l].matched_text].matched_arrows = <<l>>

\* C29: the cutoff of text matching is exclusive: a matched label is
\* strictly closer to the indicator position than max_distance, and a
\* leader with no label strictly closer than max_distance stays unmatched,
\* also when its nearest label is at distance max_distance exactly.
C29_ExclusiveCutoff ==
    [](
        TextMatched =>
            \A l \in 1..Len(arrow_leaders) :
                LET position == arrow_leaders[l].leader_position
                    max_distance == config.LEADER_ARROW_MATCHING.max_distance
                    matched == arrow_leaders[l].matched_text
                    eligible == {t \in 1..Len(texts) :
                                    distance(position, texts[t].position) < max_distance * max_distance}
                IN  /\ matched # NoText => matched \in eligible
                    /\ eligible = {} => matched = NoText
                    /\ \A t \in (1..Len(texts)) \ eligible :
                            l \notin Elements(texts[t].matched_arrows))

\* a leader whose nearest label is at distance max_distance exactly, and
\* which is unmatched
C29_Witness ==
    /\ TextMatched
    /\ \E l \in 1..Len(arrow_leaders) :
            LET position == arrow_leaders[l].leader_position
                max_distance == config.LEADER_ARROW_MATCHING.max_distance
            IN  /\ \E t \in 1..Len(texts) :
                        distance(position, texts[t].position) = max_distance * max_distance
                /\ \A t \in 1..Len(texts) :
                        distance(position, texts[t].position) >= max_distance * max_distance
                /\ arrow_leaders[l].matched_text = NoText

\* the leaders, labels and boundary list after text matching, then boundary
\* detection
TextThenBoundary(leaders, txts) ==
    LET m == match_texts_to_arrows(leaders, txts, config)
        b == detect_boundary_lines(m.arrow_leaders, lines, config)
    IN  [arrow_leaders |-> b.arrow_leaders, texts |-> m.texts,
         boundary_lines |-> b.boundary_lines]

\* the same after boundary detection, then text matching
BoundaryThenText(leaders, txts) ==
    LET b == detect_boundary_lines(leaders, lines, config)
        m == match_texts_to_arrows(b.arrow_leaders, txts, config)
    IN  [arrow_leaders |-> m.arrow_leaders, texts |-> m.texts,
         boundary_lines |-> b.boundary_lines]

\* C30: once both passes have run on the leaders assembled from the
\* detected arrows, in either order, the leaders (matched text, boundary
\* lists), the labels (back-reference lists) and the returned boundary list
\* are those of text matching followed by boundary detection and also
\* those of boundary detection followed by text matching.
C30_PassesCommute ==
    [](
        (pc = "assembled" /\ Len(passes) = 2) =>
            LET leaders == create_arrow_leaders(arrows)
                labels == [k \in 1..Len(texts) |-> TextEntity(texts[k].position)]
                now == [arrow_leaders |-> arrow_leaders, texts |-> texts,
                        boundary_lines |-> boundary_lines]
            IN  /\ TextThenBoundary(leaders, labels) = BoundaryThenText(leaders, labels)
                /\ now = TextThenBoundary(leaders, labels))

\* text matching, then boundary detection, have run and some leader has
\* both a matched text and a boundary
C30_Witness ==
    /\ entry = "functions"
    /\ passes = <<"text", "boundary">>
    /\ \E l \in 1..Len(arrow_leaders) :
            /\ arrow_leaders[l].matched_text # NoText
            /\ arrow_leaders[l].matched_boundaries # <<>>
            /\ boundary_lines # <<>>
====
